---- MODULE Spec2Model ----
(***************************************************************************)
(* Slack Markdown Renderer content script (src/unnamed/part_005, the async *)
(* revision of src/content-script.js).                                     *)
(*                                                                         *)
(* Strings are sequences of one-character strings.  Confidence values are  *)
(* kept in hundredths (0.15 is 15, 0.1 is 10, 1.0 is 100): the code adds   *)
(* IEEE doubles, the model adds the same decimal amounts exactly.          *)
(***************************************************************************)
EXTENDS Integers, Sequences, FiniteSets, TLC

\* ------------------------------------------------------------------------
\* Bounds of the model (not program constants)
\* ------------------------------------------------------------------------
MaxLines == 3
MaxRuns == 2
MaxInFlight == 2
MaxMixedLines == 10
MaxOps == 2

\* ------------------------------------------------------------------------
\* State of one page: the host document, the session store and the
\* module-level variables of the content script
\* ------------------------------------------------------------------------
VARIABLES
  hasContainer,             \* findContentContainer() finds an element
  origText,                 \* the raw text the host page displays
  fileExt,                  \* extractFileExtension() of the page URL
  storageMode,              \* sessionStorage: "ok", "throws" or "undefined"
  origCls,                  \* the class attribute the host page gave the container
  storedView,               \* item 'slack-markdown-renderer-view-preference'
  markup,                   \* container.innerHTML
  cls,                      \* container.className
  originalContentBackup,
  currentContentContainer,  \* TRUE when the reference is set
  isContentReplaced,
  toggleButton,
  currentView,
  defaultView,              \* sessionPreferences.defaultView
  processedMarkdownHTML,
  wf,                       \* executeCompleteWorkflow: where it is suspended
  tasks,                    \* switchToRenderedView calls suspended at an await
  lastToggle,               \* the most recent toggleView call and its result
  firstAnalysis,            \* the first analyzeContentType call and its result
  lastAnalysis,             \* the most recent analyzeContentType call
  apiCall,                  \* the most recent direct call of an entry point
  largeHTML,                \* the rendered HTML is longer than 50000 characters
  loadingIndicator,         \* a loading indicator element is in the page
  loadingTimeout,           \* the auto-hide timer of the indicator is pending
  ops,                      \* the withLoadingIndicator calls made so far
  storedTheme,              \* item 'slack-markdown-renderer-theme-preference'
  themeClasses,             \* background-theme classes of the rendered content
  indicatorElements,        \* indicator elements in the page: the latest, earlier ones
  autoHideTimers,           \* pending auto-hide timers: of the latest indicator, of earlier ones
  errorLog,                 \* item 'slack-markdown-renderer-errors', parsed
  logged                    \* the number of logError calls made so far

vars ==
  <<hasContainer, origText, fileExt, storageMode, origCls, storedView, markup, cls,
    originalContentBackup, currentContentContainer, isContentReplaced,
    toggleButton, currentView, defaultView, processedMarkdownHTML, wf, tasks,
    lastToggle, firstAnalysis, lastAnalysis, apiCall, largeHTML, loadingIndicator,
    loadingTimeout, ops, storedTheme, themeClasses, indicatorElements, autoHideTimers,
    errorLog, logged>>

envVars == <<hasContainer, origText, fileExt, storageMode, origCls, largeHTML>>

\* the loading indicator and the theme of the rendered content
uiVars ==
  <<loadingIndicator, loadingTimeout, storedTheme, themeClasses, indicatorElements,
    autoHideTimers, errorLog, logged>>

\* ------------------------------------------------------------------------
\* Characters and string helpers
\* ------------------------------------------------------------------------
NL == "\n"
\* the backquote character (a string literal cannot hold it)
BT == "bq"
Alphabet == {"#", " ", "-", "*", "+", BT, "[", "]", "(", ")", ">", "|", "_", "x", "1", ".", NL}
WhiteSpace == {" ", NL}
LineTerminators == {NL}

\* String.prototype.trim: strip leading and trailing white space.
RECURSIVE TrimLeft(_)
TrimLeft(s) ==
  IF s = <<>> THEN <<>>
  ELSE IF Head(s) \in WhiteSpace THEN TrimLeft(Tail(s)) ELSE s

RECURSIVE TrimRight(_)
TrimRight(s) ==
  IF s = <<>> THEN <<>>
  ELSE IF s[Len(s)] \in WhiteSpace THEN TrimRight(SubSeq(s, 1, Len(s) - 1)) ELSE s

Trim(s) == TrimRight(TrimLeft(s))

\* String.prototype.split(sep) for a one-character separator.
RECURSIVE SplitAcc(_, _, _)
SplitAcc(s, sep, cur) ==
  IF s = <<>> THEN <<cur>>
  ELSE IF Head(s) = sep THEN <<cur>> \o SplitAcc(Tail(s), sep, <<>>)
  ELSE SplitAcc(Tail(s), sep, Append(cur, Head(s)))

Split(s, sep) == SplitAcc(s, sep, <<>>)

\* Array.prototype.join(sep) on an array of strings.
RECURSIVE Join(_, _)
Join(parts, sep) ==
  IF parts = <<>> THEN <<>>
  ELSE IF Len(parts) = 1 THEN parts[1]
  ELSE parts[1] \o <<sep>> \o Join(Tail(parts), sep)

\* ------------------------------------------------------------------------
\* Regular expressions as the engine evaluates them for RegExp.test():
\* an expression maps a set of start positions to the set of positions
\* where a match can end (so greedy and lazy quantifiers coincide).
\* Positions are 1 .. Len(s)+1, the index of the next unread character.
\* ------------------------------------------------------------------------
Chr(set) == [set |-> set, op |-> "chr"]
NotChr(set) == [set |-> Alphabet \ set, op |-> "chr"]
AnyChar == [set |-> Alphabet, op |-> "chr"]
Dot == [set |-> Alphabet \ LineTerminators, op |-> "chr"]
WS == [set |-> WhiteSpace, op |-> "chr"]
Cat(list) == [op |-> "cat", list |-> list]
Alt(list) == [op |-> "alt", list |-> list]
Star(r) == [op |-> "star", r |-> r]
Plus(r) == [op |-> "cat", list |-> <<r, [op |-> "star", r |-> r]>>]
Rep(r, lo, hi) == [op |-> "rep", r |-> r, lo |-> lo, hi |-> hi]
AtLeast(r, n) ==
  [op |-> "cat", list |-> <<[op |-> "rep", r |-> r, lo |-> n, hi |-> n], [op |-> "star", r |-> r]>>]
Bol == [op |-> "bol"]
Eol == [op |-> "eol"]
Lit(s) == [op |-> "cat", list |-> [i \in 1..Len(s) |-> [set |-> {s[i]}, op |-> "chr"]]]

RECURSIVE Ends(_, _, _)
RECURSIVE EndsCat(_, _, _)
RECURSIVE EndsStar(_, _, _)
RECURSIVE EndsRep(_, _, _, _, _)

Ends(re, s, I) ==
  IF I = {} THEN {}
  ELSE CASE re.op = "chr" -> {i + 1 : i \in {j \in I : j <= Len(s) /\ s[j] \in re.set}}
         [] re.op = "cat" -> EndsCat(re.list, s, I)
         [] re.op = "alt" -> UNION {Ends(re.list[k], s, I) : k \in 1..Len(re.list)}
         [] re.op = "star" -> EndsStar(re.r, s, I)
         [] re.op = "rep" -> EndsRep(re.r, s, I, re.lo, re.hi)
         [] re.op = "bol" -> {i \in I : i = 1 \/ s[i - 1] \in LineTerminators}
         [] re.op = "eol" -> {i \in I : i = Len(s) + 1 \/ s[i] \in LineTerminators}

EndsCat(list, s, I) ==
  IF list = <<>> THEN I ELSE EndsCat(Tail(list), s, Ends(Head(list), s, I))

EndsStar(r, s, I) ==
  LET J == I \cup Ends(r, s, I)
  IN IF J = I THEN I ELSE EndsStar(r, s, J)

EndsRep(r, s, I, lo, hi) ==
  IF hi = 0 THEN I
  ELSE LET J == Ends(r, s, I)
       IN IF lo > 0 THEN EndsRep(r, s, J, lo - 1, hi - 1)
          ELSE I \cup EndsRep(r, s, J, 0, hi - 1)

\* RegExp.prototype.test for a pattern without the g or y flag.
Test(re, s) == Ends(re, s, 1..(Len(s) + 1)) # {}

\* ------------------------------------------------------------------------
\* Content classifier
\* ------------------------------------------------------------------------
FeatureIncrement == 15
HeaderStartBonus == 10
MultiFeatureBonus == 10
MultiFeatureMin == 2
ConfidenceCap == 100
MarkdownThreshold == 10

\* The patterns object of analyzeContentType, in its insertion order.
FeatureNames ==
  <<"headers", "lists", "code_blocks", "links", "emphasis", "blockquotes",
    "horizontal_rules", "tables">>

Patterns ==
  [headers |-> Cat(<<Bol, Rep(Chr({"#"}), 1, 6), Plus(WS), Plus(Dot), Eol>>),
   lists |-> Cat(<<Bol, Star(WS), Chr({"-", "*", "+"}), Plus(WS), Plus(Dot), Eol>>),
   code_blocks |-> Alt(<<Cat(<<Lit(<<BT, BT, BT>>), Star(AnyChar), Lit(<<BT, BT, BT>>)>>),
                         Cat(<<Chr({BT}), Plus(NotChr({BT, NL})), Chr({BT})>>)>>),
   links |-> Cat(<<Chr({"["}), Plus(NotChr({"]"})), Chr({"]"}), Chr({"("}),
                   Plus(NotChr({")"})), Chr({")"})>>),
   emphasis |-> Alt(<<Cat(<<Alt(<<Lit(<<"*", "*">>), Lit(<<"_", "_">>)>>),
                            Plus(NotChr({"*", "_"})),
                            Alt(<<Lit(<<"*", "*">>), Lit(<<"_", "_">>)>>)>>),
                      Cat(<<Chr({"*", "_"}), Plus(NotChr({"*", "_"})), Chr({"*", "_"})>>)>>),
   blockquotes |-> Cat(<<Bol, Chr({">"}), Plus(WS), Plus(Dot), Eol>>),
   horizontal_rules |-> Cat(<<Bol, AtLeast(Chr({"-", "*", "_"}), 3), Eol>>),
   tables |-> Cat(<<Chr({"|"}), Star(Dot), Chr({"|"}), Star(Dot), Chr({"|"})>>)]

\* The loop over Object.entries(patterns): the features pushed, in order.
RECURSIVE DetectFrom(_, _)
DetectFrom(k, content) ==
  IF k > Len(FeatureNames) THEN <<>>
  ELSE (IF Test(Patterns[FeatureNames[k]], content) THEN <<FeatureNames[k]>> ELSE <<>>)
       \o DetectFrom(k + 1, content)

DetectedFeatures(content) == DetectFrom(1, content)

\* lines.filter(line => line.trim().length > 0)
RECURSIVE FilterNonEmpty(_)
FilterNonEmpty(lines) ==
  IF lines = <<>> THEN <<>>
  ELSE IF Len(Trim(Head(lines))) > 0 THEN <<Head(lines)>> \o FilterNonEmpty(Tail(lines))
  ELSE FilterNonEmpty(Tail(lines))

NonEmptyLines(content) == FilterNonEmpty(Split(content, NL))

\* The first-line check made on the trimmed line
StartsWithHashTrimmed(content) ==
  LET nonEmptyLines == NonEmptyLines(content)
  IN Len(nonEmptyLines) > 0 /\ Trim(nonEmptyLines[1])[1] = "#"

StartsWithHash(content) ==
  LET nonEmptyLines == NonEmptyLines(content)
  IN Len(nonEmptyLines) > 0 /\ nonEmptyLines[1][1] = "#"

Min(a, b) == IF a < b THEN a ELSE b
Max(a, b) == IF a > b THEN a ELSE b

\* A value that is not a string (null, undefined, a number, an object).
NotAString == <<"<not-a-string>">>

\* JavaScript values that are not strings, by the expression that yields them.
NonString(expr) == <<expr>>
NonStrings ==
  {NotAString} \cup
  {NonString(e) : e \in {"null", "undefined", "123", "{}", "[]", "Object.create(null)"}}

IsString(v) == v \notin NonStrings

\* How a call ends: it returns a value or throws an error with a message.
Return(value) == [value |-> value, threw |-> FALSE]
Throw(message) == [value |-> message, threw |-> TRUE]
IsThrown(r) == DOMAIN r = DOMAIN Throw("")

NoApiCall == [fn |-> "none", arg |-> <<>>, outcome |-> Return(FALSE)]

\* A withLoadingIndicator call: state is "unused" before the call, "pending"
\* while the operation is awaited, "settled" after; showTimeout is TRUE while
\* its timer is pending; indicatorShown is the call's local flag.
NoOp == [state |-> "unused", showTimeout |-> FALSE, indicatorShown |-> FALSE]
NoOps == [i \in 1..MaxOps |-> NoOp]

NoExt == "<null>"

\* extractFileExtension reads window.location
extractFileExtension == fileExt

NegativeAnalysis ==
  [isMarkdown |-> FALSE, confidence |-> 0, detectedFeatures |-> <<>>, fileExtension |-> NoExt]

\* The result object with a first-line bonus that outweighs a second feature.
AnalysisOfHeavyHeaderBonus(features, content) ==
  LET c1 == FeatureIncrement * Len(features)
      c2 == IF StartsWithHash(content) THEN c1 + 3 * HeaderStartBonus ELSE c1
      c3 == IF Len(features) >= MultiFeatureMin THEN c2 + MultiFeatureBonus ELSE c2
      confidence == Min(c3, ConfidenceCap)
  IN [isMarkdown |-> confidence > MarkdownThreshold,
      confidence |-> confidence,
      detectedFeatures |-> features,
      fileExtension |-> extractFileExtension]

\* The result object, from the features the pattern loop pushed.
\* analyzeContentType comparing the confidence with >= in place of >
AnalysisOfInclusiveThreshold(features, content) ==
  LET c1 == FeatureIncrement * Len(features)
      c2 == IF StartsWithHash(content) THEN c1 + HeaderStartBonus ELSE c1
      c3 == IF Len(features) >= MultiFeatureMin THEN c2 + MultiFeatureBonus ELSE c2
      confidence == Min(c3, ConfidenceCap)
  IN [isMarkdown |-> confidence >= MarkdownThreshold,
      confidence |-> confidence,
      detectedFeatures |-> features,
      fileExtension |-> extractFileExtension]

AnalysisOf(features, content) ==
  LET c1 == FeatureIncrement * Len(features)
      c2 == IF StartsWithHash(content) THEN c1 + HeaderStartBonus ELSE c1
      c3 == IF Len(features) >= MultiFeatureMin THEN c2 + MultiFeatureBonus ELSE c2
      confidence == Min(c3, ConfidenceCap)
  IN [isMarkdown |-> confidence > MarkdownThreshold,
      confidence |-> confidence,
      detectedFeatures |-> features,
      fileExtension |-> extractFileExtension]

\* analyzeContentType with its patterns hoisted out of the function and
\* matched statefully: a second call resumes where the first one stopped
\* and finds nothing.
analyzeContentTypeSharedPatterns(content) ==
  IF ~IsString(content) \/ Len(content) = 0 THEN NegativeAnalysis
  ELSE AnalysisOf(IF firstAnalysis.called THEN <<>> ELSE DetectedFeatures(content), content)

\* analyzeContentType without its argument check: content.split is not a
\* function on a value that is not a string.
analyzeContentTypeUnguarded(content) ==
  IF ~IsString(content) THEN Throw("TypeError: content.split is not a function")
  ELSE AnalysisOf(DetectedFeatures(content), content)

analyzeContentType(content) ==
  IF ~IsString(content) \/ Len(content) = 0 THEN NegativeAnalysis
  ELSE AnalysisOf(DetectedFeatures(content), content)

detectMarkdownContent(content) ==
  IF ~IsString(content) \/ Len(content) = 0 THEN FALSE
  ELSE analyzeContentType(content).isMarkdown


\* ------------------------------------------------------------------------
\* File extension and the processing decision
\* ------------------------------------------------------------------------
MarkdownExtensions == {"md", "markdown", "mdown", "mkd", "mkdn"}

\* String.prototype.toLowerCase on the extension strings of the model.
ToLowerCase(e) ==
  CASE e = "MD" -> "md"
    [] e = "Markdown" -> "markdown"
    [] e = "MARKDOWN" -> "markdown"
    [] e = "Mdown" -> "mdown"
    [] e = "MKD" -> "mkd"
    [] e = "mkDN" -> "mkdn"
    [] e = "TXT" -> "txt"
    [] e = "Html" -> "html"
    [] OTHER -> e

\* undefined as the value of an extension
UndefinedExt == "<undefined>"

\* isMarkdownExtension comparing the extension as it is written
isMarkdownExtensionCaseSensitive(extension) ==
  IF extension \in {NoExt, UndefinedExt, ""} THEN FALSE
  ELSE extension \in MarkdownExtensions

isMarkdownExtension(extension) ==
  IF extension \in {NoExt, UndefinedExt, ""} THEN FALSE
  ELSE ToLowerCase(extension) \in MarkdownExtensions

ExtensionConfidenceFloor == 70
ContentConfidenceMin == 30
HighConfidenceMin == 60

\* shouldProcessAsMarkdown taking isMarkdown alone as the content signal
shouldProcessAsMarkdownAnySignal(content, fileExtension) ==
  IF ~IsString(content) \/ Len(content) = 0
  THEN [confidence |-> 0, shouldProcess |-> FALSE, analysis |-> NegativeAnalysis,
        hasAnalysis |-> FALSE]
  ELSE LET hasMarkdownExtension == isMarkdownExtension(fileExtension)
           analysis == analyzeContentType(content)
       IN IF hasMarkdownExtension
          THEN [confidence |-> Max(analysis.confidence, ExtensionConfidenceFloor),
                shouldProcess |-> TRUE,
                analysis |-> analysis, hasAnalysis |-> TRUE]
          ELSE [confidence |-> analysis.confidence, shouldProcess |-> analysis.isMarkdown,
                analysis |-> analysis, hasAnalysis |-> TRUE]

shouldProcessAsMarkdown(content, fileExtension) ==
  IF ~IsString(content) \/ Len(content) = 0
  THEN [confidence |-> 0, shouldProcess |-> FALSE, analysis |-> NegativeAnalysis,
        hasAnalysis |-> FALSE]
  ELSE LET hasMarkdownExtension == isMarkdownExtension(fileExtension)
           analysis == analyzeContentType(content)
       IN IF hasMarkdownExtension
          THEN [confidence |-> Max(analysis.confidence, ExtensionConfidenceFloor),
                shouldProcess |-> TRUE,
                analysis |-> analysis, hasAnalysis |-> TRUE]
          ELSE IF analysis.isMarkdown /\ analysis.confidence > ContentConfidenceMin
          THEN [confidence |-> analysis.confidence, shouldProcess |-> TRUE,
                analysis |-> analysis, hasAnalysis |-> TRUE]
          ELSE IF analysis.confidence > HighConfidenceMin
          THEN [confidence |-> analysis.confidence, shouldProcess |-> TRUE,
                analysis |-> analysis, hasAnalysis |-> TRUE]
          ELSE [confidence |-> analysis.confidence, shouldProcess |-> FALSE,
                analysis |-> analysis, hasAnalysis |-> TRUE]

\* The per-line pattern of handleMixedContent (no m flag; applied to one
\* trimmed line).
Digits == {"1"}
MixedLinePattern ==
  Alt(<<Cat(<<Bol, Rep(Chr({"#"}), 1, 6), WS>>),
        Cat(<<Bol, Chr({"-", "*", "+"}), WS>>),
        Cat(<<Bol, Chr({">"}), WS>>),
        Cat(<<Bol, Plus(Chr(Digits)), Chr({"."}), WS>>),
        Lit(<<BT, BT, BT>>),
        Cat(<<Chr({BT}), Plus(NotChr({BT})), Chr({BT})>>),
        Cat(<<Chr({"["}), Star(Dot), Chr({"]"}), Chr({"("}), Star(Dot), Chr({")"})>>),
        Cat(<<Lit(<<"*", "*">>), Star(Dot), Lit(<<"*", "*">>)>>),
        Cat(<<Lit(<<"_", "_">>), Star(Dot), Lit(<<"_", "_">>)>>),
        Cat(<<Bol, Star(WS), AtLeast(Chr({"-", "*", "_"}), 3), Eol>>)>>)

\* The forEach of handleMixedContent: <<markdownLines, plainTextLines>>.
RECURSIVE CountLines(_)
CountLines(lines) ==
  IF lines = <<>> THEN <<0, 0>>
  ELSE LET rest == CountLines(Tail(lines))
           trimmedLine == Trim(Head(lines))
       IN IF Len(trimmedLine) = 0 THEN rest
          ELSE IF Test(MixedLinePattern, trimmedLine) THEN <<rest[1] + 1, rest[2]>>
          ELSE <<rest[1], rest[2] + 1>>

MixedRatioNum == 3
MixedRatioDen == 10

\* markdownRatio > 0.3, as markdownLines / (markdownLines + plainTextLines);
\* 0/0 is NaN, which is not greater than 0.3.
handleMixedContent(content) ==
  LET counts == CountLines(Split(content, NL))
      markdownLines == counts[1]
      plainTextLines == counts[2]
  IN [markdownLines |-> markdownLines,
      plainTextLines |-> plainTextLines,
      strategy |-> IF markdownLines + plainTextLines > 0
                      /\ MixedRatioDen * markdownLines
                           > MixedRatioNum * (markdownLines + plainTextLines)
                   THEN "process_as_markdown" ELSE "preserve_as_plain_text"]

handleNonMarkdownContent(content, fileExtension) ==
  LET markdownDecision == shouldProcessAsMarkdown(content, fileExtension)
  IN IF markdownDecision.shouldProcess
     THEN [confidence |-> markdownDecision.confidence, action |-> "process_as_markdown",
           mixedContent |-> FALSE]
     ELSE IF markdownDecision.hasAnalysis
             /\ Len(markdownDecision.analysis.detectedFeatures) > 0
             /\ handleMixedContent(content).strategy = "process_as_markdown"
     THEN [confidence |-> markdownDecision.confidence, action |-> "process_as_markdown",
           mixedContent |-> TRUE]
     ELSE [confidence |-> markdownDecision.confidence, action |-> "preserve_original",
           mixedContent |-> FALSE]

\* ------------------------------------------------------------------------
\* The class attribute: a string, and the DOMTokenList view of it
\* ------------------------------------------------------------------------
\* the class token 'slack-markdown-rendered'
Marker == <<"m">>

RECURSIVE Dedupe(_)
Dedupe(tokens) ==
  IF tokens = <<>> THEN <<>>
  ELSE LET rest == Dedupe(SubSeq(tokens, 1, Len(tokens) - 1))
           last == tokens[Len(tokens)]
       IN IF \E i \in 1..Len(rest) : rest[i] = last THEN rest ELSE Append(rest, last)

RECURSIVE DropEmpty(_)
DropEmpty(parts) ==
  IF parts = <<>> THEN <<>>
  ELSE IF Head(parts) = <<>> THEN DropEmpty(Tail(parts))
  ELSE <<Head(parts)>> \o DropEmpty(Tail(parts))

\* the ordered-set parser: split on ASCII white space, keep first occurrences
TokenSet(className) == Dedupe(DropEmpty(Split(className, " ")))
\* the ordered-set serializer
SerializeTokens(tokens) == Join(tokens, " ")

RECURSIVE Without(_, _)
Without(tokens, t) ==
  IF tokens = <<>> THEN <<>>
  ELSE IF Head(tokens) = t THEN Without(Tail(tokens), t)
  ELSE <<Head(tokens)>> \o Without(Tail(tokens), t)

\* element.classList.add(token): the attribute is rewritten from the token set
ClassListAdd(className, t) ==
  LET tokens == TokenSet(className)
  IN SerializeTokens(IF \E i \in 1..Len(tokens) : tokens[i] = t THEN tokens
                     ELSE Append(tokens, t))

\* element.classList.remove(token): likewise rewritten, also when t is absent
ClassListRemove(className, t) == SerializeTokens(Without(TokenSet(className), t))


\* ------------------------------------------------------------------------
\* Values of the page state
\* ------------------------------------------------------------------------
\* Texts a page may hold.
Texts == {<<>>, <<"x">>, <<"#", " ", "x">>}
NonEmptyTexts == {t \in Texts : Len(Trim(t)) > 0}
FileExts == {NoExt, "md"}

\* Lines of text that between them exercise every detector, alone and
\* together, and the first-line heuristic.
LineVocabulary ==
  { <<>>,
    <<"x">>,
    <<"#", "x">>,
    <<" ", "#", " ", "x">>,
    <<"#", " ", "x">>,
    <<"#", " ", BT, "x", BT, " ", "[", "x", "]", "(", "x", ")">>,
    <<"-", " ", "*", "x", "*", " ", "|", "x", "|", "x", "|">>,
    <<">", " ", "x">>,
    <<"-", "-", "-">>,
    <<"-">> }

\* The texts of at most n lines.
RECURSIVE TextsOfLines(_)
TextsOfLines(n) ==
  IF n = 0 THEN {}
  ELSE LineVocabulary \cup {t \o <<NL>> \o l : t \in TextsOfLines(n - 1), l \in LineVocabulary}

ClassifierInputs == TextsOfLines(MaxLines)

\* Class attributes a host container may carry: none, one class, a class
\* after white space, and the marker class itself.
ClassNames == {<<>>, <<"a">>, <<" ", "a">>, Marker}

\* Markup values: the host's original markup of a text, the styled HTML that
\* processMarkdownContent produced for a text, or no value (null).
OrigMarkup(t) == [kind |-> "orig", text |-> t, fallback |-> FALSE]
StyledHTML(t) == [kind |-> "html", text |-> t, fallback |-> FALSE]
FallbackHTML(t) == [kind |-> "html", text |-> t, fallback |-> TRUE]
NoHTML == [kind |-> "none", text |-> <<>>, fallback |-> FALSE]
NoBackup == [className |-> <<>>, present |-> FALSE, innerHTML |-> NoHTML]
NoButton == [exists |-> FALSE, attached |-> FALSE, disabled |-> FALSE, mode |-> "rendered"]
NoCall == [ret |-> FALSE, preView |-> "raw", origin |-> "none"]
\* A toggleView call that has settled, with what it returned.
Settled(ret, preView, origin) == [ret |-> ret, preView |-> preView, origin |-> origin]
ViewModes == {"raw", "rendered"}
NoItem == "<none>"
StoredValues == {NoItem, "raw", "rendered", "junk"}

\* The mutable state the functions below read and write, as one record.
S ==
  [storedView |-> storedView, markup |-> markup, cls |-> cls,
   defaultView |-> defaultView, tasks |-> tasks, backup |-> originalContentBackup,
   ccc |-> currentContentContainer, replaced |-> isContentReplaced,
   button |-> toggleButton, view |-> currentView, cache |-> processedMarkdownHTML,
   indicator |-> loadingIndicator, autoHide |-> loadingTimeout,
   savedTheme |-> storedTheme, themes |-> themeClasses,
   elements |-> indicatorElements, timers |-> autoHideTimers,
   errors |-> errorLog, logCount |-> logged]

Commit(s) ==
  /\ markup' = s.markup
  /\ cls' = s.cls
  /\ originalContentBackup' = s.backup
  /\ currentContentContainer' = s.ccc
  /\ isContentReplaced' = s.replaced
  /\ toggleButton' = s.button
  /\ currentView' = s.view
  /\ defaultView' = s.defaultView
  /\ processedMarkdownHTML' = s.cache
  /\ storedView' = s.storedView
  /\ tasks' = s.tasks
  /\ loadingIndicator' = s.indicator
  /\ loadingTimeout' = s.autoHide
  /\ storedTheme' = s.savedTheme
  /\ themeClasses' = s.themes
  /\ indicatorElements' = s.elements
  /\ autoHideTimers' = s.timers
  /\ errorLog' = s.errors
  /\ logged' = s.logCount

\* What the collaborators do in one call: the DOM getters and setters, the
\* notification insert and appendChild may throw.
Faults == [backupThrows : BOOLEAN, writeThrows : BOOLEAN, noticeFails : BOOLEAN,
           addFails : BOOLEAN]
\* the faults a toggle can meet: it inserts no notice and appends no button
ToggleFaults == {f \in Faults : ~f.noticeFails /\ ~f.addFails}
FinishFaults == {f \in Faults : ~f.noticeFails}

\* ------------------------------------------------------------------------
\* DOM replacement and content management
\* ------------------------------------------------------------------------
findContentContainer == hasContainer

\* Returns the new state; ok is FALSE when the function threw.
backupOriginalContent(s, f) ==
  IF f.backupThrows THEN [s |-> s, ok |-> FALSE]
  ELSE [s |-> [s EXCEPT !.backup = [className |-> s.cls, present |-> TRUE,
                                    innerHTML |-> s.markup],
                        !.ccc = TRUE],
        ok |-> TRUE]

IsValidHTML(html) == html.kind = "html"

replaceContentWithHTML(s, styledHTML, f) ==
  IF ~IsValidHTML(styledHTML) THEN [s |-> s, ok |-> FALSE]
  ELSE IF ~(s.ccc \/ findContentContainer) THEN [s |-> s, ok |-> FALSE]
  ELSE LET s1 == IF ~s.backup.present THEN backupOriginalContent(s, f).s ELSE s
       IN IF f.writeThrows THEN [s |-> s1, ok |-> FALSE]
          ELSE [s |-> [s1 EXCEPT !.markup = styledHTML,
                                 !.cls = ClassListAdd(s1.cls, Marker),
                                 !.replaced = TRUE,
                                 !.themes = {}],
                ok |-> TRUE]

restoreOriginalContent(s, f) ==
  IF ~s.backup.present \/ ~s.ccc THEN [s |-> s, ok |-> FALSE]
  ELSE IF f.writeThrows THEN [s |-> s, ok |-> FALSE]
  ELSE [s |-> [s EXCEPT !.markup = s.backup.innerHTML,
                        !.cls = ClassListRemove(s.backup.className, Marker),
                        !.replaced = FALSE,
                        !.themes = {}],
        ok |-> TRUE]

\* The guard at the head of replaceContentWithHTML: a string with something
\* other than white space in it.
IsStyledHTMLArgument(v) == IsString(v) /\ Len(Trim(v)) > 0

\* replaceContentWithHTML taking its snapshot before it validates styledHTML
replaceContentWithHTMLBackupFirst(s, v, f) ==
  IF ~(s.ccc \/ findContentContainer) THEN [s |-> s, ok |-> FALSE]
  ELSE LET s1 == IF ~s.backup.present THEN backupOriginalContent(s, f).s ELSE s
       IN IF ~IsStyledHTMLArgument(v) THEN [s |-> s1, ok |-> FALSE]
          ELSE replaceContentWithHTML(s1, StyledHTML(v), f)

\* replaceContentWithHTML called with any value; ok is FALSE when it threw.
replaceContentWithHTMLOfValue(s, v, f) ==
  IF ~IsStyledHTMLArgument(v) THEN [s |-> s, ok |-> FALSE]
  ELSE replaceContentWithHTML(s, StyledHTML(v), f)

\* JavaScript's falsy values among the arguments.
IsFalsy(v) == v \in {NonString("null"), NonString("undefined"), <<>>}

\* toggleContent: every throw of the two functions is caught and reported
\* as false.
toggleContent(s, mode, styledHTML, f) ==
  IF mode = "rendered"
  THEN IF IsFalsy(styledHTML) THEN [s |-> s, ok |-> FALSE]
       ELSE replaceContentWithHTMLOfValue(s, styledHTML, f)
  ELSE restoreOriginalContent(s, f)

\* handleDOMError: fallbackUsed is true when the notification was inserted
performContentReplacement(s, styledHTML, f) ==
  LET r == replaceContentWithHTML(s, styledHTML, f)
  IN [s |-> r.s, success |-> r.ok, fallbackUsed |-> ~r.ok /\ ~f.noticeFails]

\* ------------------------------------------------------------------------
\* Session preference
\* ------------------------------------------------------------------------
saveSessionPreference(s, viewMode) ==
  IF viewMode \notin ViewModes THEN s
  ELSE CASE storageMode = "ok" -> [s EXCEPT !.storedView = viewMode, !.defaultView = viewMode]
         [] storageMode = "undefined" -> [s EXCEPT !.defaultView = viewMode]
         [] storageMode = "throws" -> s

\* saveSessionPreference assigning the in-memory preference before it
\* touches the store
saveSessionPreferenceMemoryFirst(s, viewMode) ==
  IF viewMode \notin ViewModes THEN s
  ELSE CASE storageMode = "ok" -> [s EXCEPT !.storedView = viewMode, !.defaultView = viewMode]
         [] OTHER -> [s EXCEPT !.defaultView = viewMode]

\* removeItem, then the in-memory preference is reset; removeItem may throw.
clearSessionPreference(s) ==
  CASE storageMode = "ok" -> [s EXCEPT !.storedView = NoItem, !.defaultView = "rendered"]
    [] storageMode = "undefined" -> [s EXCEPT !.defaultView = "rendered"]
    [] storageMode = "throws" -> s

\* Returns the state and the value returned.
loadSessionPreference(s) ==
  IF storageMode = "ok" /\ s.storedView \in ViewModes
  THEN [s |-> [s EXCEPT !.defaultView = s.storedView], value |-> s.storedView]
  ELSE [s |-> s, value |-> s.defaultView]

\* ------------------------------------------------------------------------
\* Loading indicator
\* ------------------------------------------------------------------------
\* The previous indicator is removed and its timer cleared; the element goes.
\* hideLoadingIndicator clears the timer that loadingTimeout refers to and
\* removes the element that loadingIndicator refers to, the latest of each.
hideLoadingIndicator(s) ==
  [s EXCEPT !.indicator = FALSE, !.autoHide = FALSE,
            !.elements = IF s.indicator THEN @ \ {"current"} ELSE @,
            !.timers = IF s.autoHide THEN @ \ {"current"} ELSE @]

\* What is left of earlier indicators when a new one is made.
Earlier(set) == IF set = {} THEN {} ELSE {"earlier"}

\* showLoadingIndicator making its element without hiding the previous one
showLoadingIndicatorKeepsPrevious(s, timeout) ==
  [s EXCEPT !.indicator = TRUE, !.autoHide = timeout > 0,
            !.elements = Earlier(s.elements) \cup {"current"},
            !.timers = Earlier(s.timers) \cup (IF timeout > 0 THEN {"current"} ELSE {})]

\* showLoadingIndicator(message, timeout): the previous indicator is hidden,
\* the new element is inserted, and the auto-hide timer is set when timeout
\* is positive.
showLoadingIndicatorFor(s, timeout) ==
  LET h == hideLoadingIndicator(s)
  IN [h EXCEPT !.indicator = TRUE, !.autoHide = timeout > 0,
               !.elements = Earlier(h.elements) \cup {"current"},
               !.timers = Earlier(h.timers) \cup (IF timeout > 0 THEN {"current"} ELSE {})]

\* showLoadingIndicator without its auto-hide timer
showLoadingIndicatorNoTimeout(s) == showLoadingIndicatorFor(s, 0)

\* Every caller in the script passes a positive timeout or none (10000 by
\* default), so the auto-hide timer is set.
showLoadingIndicator(s) == showLoadingIndicatorFor(s, 10000)

\* processedMarkdownHTML.length > 50000
shouldShowLoading == largeHTML

\* ------------------------------------------------------------------------
\* Background theme
\* ------------------------------------------------------------------------
BACKGROUND_THEMES ==
  [WHITE |-> "theme-white", LIGHT_GRAY |-> "theme-light-gray",
   WARM_WHITE |-> "theme-warm-white", PAPER |-> "theme-paper"]

ThemeClassesAll == {BACKGROUND_THEMES[k] : k \in DOMAIN BACKGROUND_THEMES}

NullTheme == "<null>"
UndefinedTheme == "<undefined>"

\* theme.toUpperCase().replace('-', '_') on the theme strings of the model.
ThemeKey(theme) ==
  CASE theme = "white" -> "WHITE"
    [] theme = "light-gray" -> "LIGHT_GRAY"
    [] theme = "warm-white" -> "WARM_WHITE"
    [] theme = "paper" -> "PAPER"
    [] theme = "Paper" -> "PAPER"
    [] theme = "light_gray" -> "LIGHT_GRAY"
    [] theme = "invalid-theme" -> "INVALID_THEME"
    [] theme = "dark" -> "DARK"
    [] theme = "theme-paper" -> "THEME_PAPER"
    [] OTHER -> theme

saveThemePreference(s, theme) ==
  IF storageMode = "ok" THEN [s EXCEPT !.savedTheme = theme] ELSE s

loadThemePreference(s) ==
  IF /\ storageMode = "ok"
     /\ s.savedTheme \notin {NoItem, ""}
     /\ ThemeKey(s.savedTheme) \in DOMAIN BACKGROUND_THEMES
  THEN s.savedTheme
  ELSE "white"

\* setBackgroundTheme adding the new class without removing the old ones
setBackgroundThemeKeepsOld(s, theme0) ==
  LET theme == IF theme0 = UndefinedTheme THEN "white" ELSE theme0
      key == ThemeKey(theme)
  IN IF ~(s.ccc \/ findContentContainer) \/ s.markup.kind # "html" \/ theme = NullTheme
     THEN [s |-> s, ret |-> FALSE]
     ELSE [s |-> saveThemePreference(
                   [s EXCEPT !.themes =
                      s.themes \cup {IF key \in DOMAIN BACKGROUND_THEMES
                                     THEN BACKGROUND_THEMES[key]
                                     ELSE BACKGROUND_THEMES.WHITE}], theme),
           ret |-> TRUE]

\* The rendered content is the element of class slack-markdown-renderer-content
\* inside the container.  toUpperCase throws on null, after the old classes
\* have been removed; undefined takes the default 'white'.
setBackgroundTheme(s, theme0) ==
  LET theme == IF theme0 = UndefinedTheme THEN "white" ELSE theme0
      key == ThemeKey(theme)
  IN IF ~(s.ccc \/ findContentContainer) THEN [s |-> s, ret |-> FALSE]
     ELSE IF s.markup.kind # "html" THEN [s |-> s, ret |-> FALSE]
     ELSE IF theme = NullTheme
     THEN [s |-> [s EXCEPT !.themes = s.themes \ ThemeClassesAll], ret |-> FALSE]
     ELSE [s |-> saveThemePreference(
                   [s EXCEPT !.themes =
                      (s.themes \ ThemeClassesAll)
                        \cup {IF key \in DOMAIN BACKGROUND_THEMES
                              THEN BACKGROUND_THEMES[key]
                              ELSE BACKGROUND_THEMES.WHITE}], theme),
           ret |-> TRUE]

\* ------------------------------------------------------------------------
\* Toggle button and view switching
\* ------------------------------------------------------------------------
createToggleButton(s) ==
  [s EXCEPT !.button = [exists |-> TRUE, attached |-> FALSE, disabled |-> FALSE,
                        mode |-> "rendered"]]

addToggleButtonToPage(s, f) ==
  IF ~s.button.exists \/ f.addFails THEN [s |-> s, ok |-> FALSE]
  ELSE [s |-> [s EXCEPT !.button.attached = TRUE], ok |-> TRUE]

\* updateToggleButton changing the button only, not currentView
updateToggleButtonLabelOnly(s, mode) ==
  IF ~s.button.exists THEN s
  ELSE [s EXCEPT !.button.mode = mode]

updateToggleButton(s, mode) ==
  IF ~s.button.exists THEN s
  ELSE [s EXCEPT !.button.mode = mode, !.view = mode]

\* switchToRawView updating the button and the preference whether or not
\* the content was restored
switchToRawViewIgnoresFailure(s, f) ==
  LET r == restoreOriginalContent(s, f)
  IN [s |-> saveSessionPreference(updateToggleButton(r.s, "raw"), "raw"), ok |-> r.ok]

switchToRawView(s, f) ==
  LET r == restoreOriginalContent(s, f)
  IN IF r.ok
     THEN [s |-> saveSessionPreference(updateToggleButton(r.s, "raw"), "raw"), ok |-> TRUE]
     ELSE [s |-> r.s, ok |-> FALSE]

\* switchToRenderedView saving the preference before it looks at the cache
switchToRenderedViewBeginSavesFirst(s, f, origin) ==
  LET s0 == saveSessionPreference(s, "rendered")
  IN IF ~IsValidHTML(s0.cache) THEN [s |-> s0, pending |-> FALSE]
     ELSE LET r == replaceContentWithHTML(s0, s0.cache, f)
          IN IF r.ok
             THEN [s |-> [r.s EXCEPT !.tasks = Append(r.s.tasks,
                                      [preView |-> s.view, origin |-> origin])],
                   pending |-> TRUE]
             ELSE [s |-> r.s, pending |-> FALSE]

\* switchToRenderedView up to its first await: pending is TRUE when the call
\* is suspended there, otherwise it has returned false.
\* switchToRenderedView producing its HTML anew, as a parser failure would,
\* where the code reuses processedMarkdownHTML
switchToRenderedViewBeginReparses(s, f, origin) ==
  IF ~IsValidHTML(s.cache) THEN [s |-> s, pending |-> FALSE]
  ELSE LET s0 == [s EXCEPT !.cache = FallbackHTML(s.cache.text)]
           r == replaceContentWithHTML(s0, s0.cache, f)
       IN IF r.ok
          THEN [s |-> [r.s EXCEPT !.tasks = Append(r.s.tasks,
                                   [preView |-> s.view, origin |-> origin])],
                pending |-> TRUE]
          ELSE [s |-> r.s, pending |-> FALSE]

switchToRenderedViewBegin(s, f, origin) ==
  IF ~IsValidHTML(s.cache) THEN [s |-> s, pending |-> FALSE]
  ELSE LET s0 == IF shouldShowLoading THEN showLoadingIndicator(s) ELSE s
           r == replaceContentWithHTML(s0, s0.cache, f)
       IN IF r.ok
          THEN [s |-> [r.s EXCEPT !.tasks = Append(r.s.tasks,
                                   [preView |-> s.view, origin |-> origin])],
                pending |-> TRUE]
          ELSE [s |-> IF shouldShowLoading THEN hideLoadingIndicator(r.s) ELSE r.s,
                pending |-> FALSE]

\* ... and from the last await to its return of true.
switchToRenderedViewEnd(s) ==
  LET s1 == saveSessionPreference(updateToggleButton(s, "rendered"), "rendered")
  IN IF shouldShowLoading THEN hideLoadingIndicator(s1) ELSE s1

initializeWithPreferences(s, f) ==
  LET l == loadSessionPreference(s)
      initialView == l.value
      s1 == IF initialView = "raw" /\ l.s.view = "rendered" THEN switchToRawView(l.s, f).s
            ELSE IF initialView = "rendered" /\ l.s.view = "raw"
            THEN switchToRenderedViewBegin(l.s, f, "init").s
            ELSE l.s
  IN saveSessionPreference(s1, s1.view)


Enable(s) == IF s.button.exists THEN [s EXCEPT !.button.disabled = FALSE] ELSE s
\* handleToggleClick without the line that disables the button
DisableSkipped(s) == s
Disable(s) == IF s.button.exists THEN [s EXCEPT !.button.disabled = TRUE] ELSE s

\* toggleView up to its return or its first await on a timer.
\* ret is "true", "false" or "pending".
toggleView(s, f, origin) ==
  IF s.view = "raw"
  THEN LET r == switchToRenderedViewBegin(s, f, origin)
       IN [s |-> r.s, ret |-> IF r.pending THEN "pending" ELSE "false"]
  ELSE LET r == switchToRawView(s, f)
       IN [s |-> r.s, ret |-> IF r.ok THEN "true" ELSE "false"]

\* handleToggleClick up to the same point; the finally block runs here when
\* toggleView has settled, otherwise when the suspended call completes.
handleToggleClick(s, f) ==
  LET r == toggleView(Disable(s), f, "click")
  IN IF r.ret = "pending" THEN r ELSE [s |-> Enable(r.s), ret |-> r.ret]

\* ------------------------------------------------------------------------
\* executeCompleteWorkflow
\* ------------------------------------------------------------------------
WfStart ==
  [content |-> <<>>, replaced |-> "none", pc |-> "start", run |-> 1, styled |-> NoHTML,
   parseFailed |-> FALSE, result |-> "none"]

\* extractTextContent: the trimmed text of the container, or of the body.
\* The text of rendered HTML is whatever the external parser made of it.
RenderedTexts == {<<"x">>, <<"#", " ", "x">>}
ExtractableTexts ==
  IF markup.kind = "orig" \/ ~hasContainer THEN {origText} ELSE RenderedTexts

RecordAnalysis(content) ==
  LET a == [content |-> content, called |-> TRUE, result |-> analyzeContentType(content),
            at |-> [replaced |-> isContentReplaced, view |-> currentView,
                    toggled |-> lastToggle # NoCall]]
  IN /\ lastAnalysis' = a
     /\ firstAnalysis' = IF firstAnalysis.called THEN firstAnalysis ELSE a

\* executeCompleteWorkflow taking the snapshot of the container before it
\* classifies the content
WorkflowStartSnapshotsFirst ==
  /\ wf.pc = "start"
  /\ \E content \in ExtractableTexts :
       IF Len(Trim(content)) = 0
       THEN /\ wf' = [wf EXCEPT !.pc = "done", !.result = "no_content"]
            /\ UNCHANGED <<firstAnalysis, lastAnalysis>>
       ELSE /\ RecordAnalysis(content)
            /\ IF handleNonMarkdownContent(content, extractFileExtension).action
                    # "process_as_markdown"
               THEN wf' = [wf EXCEPT !.pc = "done", !.content = content,
                                     !.result = "preserved"]
               ELSE wf' = [wf EXCEPT !.pc = "parse", !.content = content]
  /\ originalContentBackup' =
       [className |-> cls, present |-> TRUE, innerHTML |-> markup]
  /\ currentContentContainer' = TRUE
  /\ UNCHANGED <<envVars, apiCall, ops, uiVars, storedView, markup, cls, isContentReplaced,
                 toggleButton, currentView, defaultView, processedMarkdownHTML, tasks,
                 lastToggle>>

\* Steps 1 to 3 and the call of processMarkdownContent up to its first await.
WorkflowStart ==
  /\ wf.pc = "start"
  /\ \E content \in ExtractableTexts :
       IF Len(Trim(content)) = 0
       THEN /\ wf' = [wf EXCEPT !.pc = "done", !.result = "no_content"]
            /\ UNCHANGED <<firstAnalysis, lastAnalysis>>
       ELSE /\ RecordAnalysis(content)
            /\ IF handleNonMarkdownContent(content, extractFileExtension).action
                    # "process_as_markdown"
               THEN wf' = [wf EXCEPT !.pc = "done", !.content = content,
                                     !.result = "preserved"]
               ELSE wf' = [wf EXCEPT !.pc = "parse", !.content = content]
  /\ UNCHANGED <<envVars, apiCall, ops, uiVars, storedView, markup, cls, originalContentBackup,
                 currentContentContainer, isContentReplaced, toggleButton, currentView,
                 defaultView, processedMarkdownHTML, tasks, lastToggle>>

\* handleParsingError building its fallback without the content
handleParsingErrorNoContent(content) == FallbackHTML(<<>>)

\* Values a template literal cannot convert to a string.
ToStringThrows(v) == v = NonString("Object.create(null)")

\* handleParsingError: the styledHTML of its result, the content in a pre tag.
\* The template literal converts the content to a string, which throws a
\* TypeError for a value without a string conversion.
handleParsingError(content) ==
  IF ToStringThrows(content)
  THEN Throw("TypeError: Cannot convert object to primitive value")
  ELSE FallbackHTML(content)

\* safeParseMarkdownAsync: marked.parse returns a string, or it throws or
\* returns something else and handleParsingError builds the fallback HTML.
WorkflowParse ==
  /\ wf.pc = "parse"
  /\ \E parseOk \in BOOLEAN :
       IF parseOk
       THEN /\ wf' = [wf EXCEPT !.pc = "style"]
            /\ UNCHANGED processedMarkdownHTML
       ELSE /\ wf' = [wf EXCEPT !.pc = "replace", !.parseFailed = TRUE,
                                !.styled = handleParsingError(wf.content)]
            /\ processedMarkdownHTML' = handleParsingError(wf.content)
  /\ UNCHANGED <<envVars, apiCall, ops, uiVars, storedView, markup, cls, originalContentBackup,
                 currentContentContainer, isContentReplaced, toggleButton, currentView,
                 defaultView, tasks, lastToggle, firstAnalysis, lastAnalysis>>

\* generateStyledHTML, then Step 5 up to the await in performContentReplacement.
WorkflowStyle ==
  /\ wf.pc = "style"
  /\ wf' = [wf EXCEPT !.pc = "replace", !.styled = StyledHTML(wf.content)]
  /\ processedMarkdownHTML' = StyledHTML(wf.content)
  /\ UNCHANGED <<envVars, apiCall, ops, uiVars, storedView, markup, cls, originalContentBackup,
                 currentContentContainer, isContentReplaced, toggleButton, currentView,
                 defaultView, tasks, lastToggle, firstAnalysis, lastAnalysis>>

\* getCurrentBackgroundTheme: the name of the first theme of BACKGROUND_THEMES
\* whose class the rendered content carries, in lower case with '-' for the
\* first '_'; 'white' when there is none, no rendered content or no container.
getCurrentBackgroundTheme(s) ==
  IF ~(s.ccc \/ findContentContainer) \/ s.markup.kind # "html" THEN "white"
  ELSE CASE BACKGROUND_THEMES.WHITE \in s.themes -> "white"
         [] BACKGROUND_THEMES.LIGHT_GRAY \in s.themes -> "light-gray"
         [] BACKGROUND_THEMES.WARM_WHITE \in s.themes -> "warm-white"
         [] BACKGROUND_THEMES.PAPER \in s.themes -> "paper"
         [] OTHER -> "white"

\* Step 6: the saved theme is loaded and applied to the rendered content.
WorkflowStep6(s) == setBackgroundTheme(s, loadThemePreference(s)).s

\* Steps 8 and 9.
WorkflowSteps8to9(s, f) ==
  LET s1 == createToggleButton(s)
      a == addToggleButtonToPage(s1, f)
      s2 == IF a.ok THEN updateToggleButton(a.s, "rendered") ELSE a.s
      s3 == initializeWithPreferences(s2, f)
  IN saveSessionPreference(s3, "rendered")

\* Step 5 after the await, Steps 6 and 7; applySyntaxHighlighting yields to
\* the event loop between batches of code blocks when there are several.
WorkflowReplace ==
  /\ wf.pc = "replace"
  /\ \E f \in Faults, yields \in BOOLEAN :
       LET r == performContentReplacement(S, wf.styled, f)
           w == [wf EXCEPT !.replaced = IF r.success THEN "ok" ELSE "failed"]
       IN IF ~r.success /\ ~r.fallbackUsed
          THEN /\ Commit(r.s)
               /\ wf' = [w EXCEPT !.pc = "done", !.result = "replace_failed"]
          ELSE IF yields /\ (r.s.ccc \/ findContentContainer)
          THEN /\ Commit(WorkflowStep6(r.s))
               /\ wf' = [w EXCEPT !.pc = "highlight"]
          ELSE /\ Commit(WorkflowSteps8to9(WorkflowStep6(r.s), f))
               /\ wf' = [w EXCEPT !.pc = "done", !.result = "complete"]
  /\ UNCHANGED <<envVars, apiCall, ops, lastToggle, firstAnalysis, lastAnalysis>>

WorkflowFinish ==
  /\ wf.pc = "highlight"
  /\ \E f \in FinishFaults :
       /\ Commit(WorkflowSteps8to9(S, f))
       /\ wf' = [wf EXCEPT !.pc = "done", !.result = "complete"]
  /\ UNCHANGED <<envVars, apiCall, ops, lastToggle, firstAnalysis, lastAnalysis>>

\* ------------------------------------------------------------------------
\* User events and suspended calls
\* ------------------------------------------------------------------------
\* A click, or Enter or Space, on the toggle button.  A disabled or detached
\* button receives neither.
UserToggle ==
  /\ toggleButton.exists /\ toggleButton.attached /\ ~toggleButton.disabled
  /\ Len(tasks) < MaxInFlight
  /\ \E f \in ToggleFaults :
       LET r == handleToggleClick(S, f)
       IN IF r.ret = "pending"
          THEN /\ Commit(r.s)
               /\ UNCHANGED lastToggle
          ELSE /\ Commit(r.s)
               /\ lastToggle' = Settled(r.ret = "true", currentView, "click")
  /\ UNCHANGED <<envVars, apiCall, ops, wf, firstAnalysis, lastAnalysis>>

RemoveAt(seq, i) == SubSeq(seq, 1, i - 1) \o SubSeq(seq, i + 1, Len(seq))

\* A suspended switchToRenderedView resumes from its timer and runs to its
\* return: the styles, the highlighting (whose further timer yields touch no
\* state), updateToggleButton and saveSessionPreference; then the finally
\* block of the handleToggleClick that awaited it.
TaskStep ==
  \E i \in 1..Len(tasks) :
    LET t == tasks[i]
        s1 == switchToRenderedViewEnd([S EXCEPT !.tasks = RemoveAt(tasks, i)])
        s2 == IF t.origin = "click" THEN Enable(s1) ELSE s1
    IN /\ Commit(s2)
       /\ lastToggle' = IF t.origin = "init" THEN lastToggle
                        ELSE Settled(TRUE, t.preView, t.origin)
       /\ UNCHANGED <<envVars, apiCall, ops, wf, firstAnalysis, lastAnalysis>>

\* ------------------------------------------------------------------------
\* Direct calls of the functions, as the test files make them
\* ------------------------------------------------------------------------
ApiToggleView ==
  /\ Len(tasks) < MaxInFlight
  /\ \E f \in ToggleFaults :
       LET r == toggleView(S, f, "api")
       IN /\ Commit(r.s)
          /\ lastToggle' = IF r.ret = "pending" THEN lastToggle
                           ELSE Settled(r.ret = "true", currentView, "api")
  /\ UNCHANGED <<envVars, apiCall, ops, wf, firstAnalysis, lastAnalysis>>

ApiAnalyze ==
  /\ RecordAnalysis(origText)
  /\ UNCHANGED <<envVars, apiCall, ops, uiVars, storedView, markup, cls, originalContentBackup,
                 currentContentContainer, isContentReplaced, toggleButton, currentView,
                 defaultView, processedMarkdownHTML, wf, tasks, lastToggle>>

\* executeCompleteWorkflow invoked again after an earlier run has settled.
ApiRerunWorkflow ==
  /\ wf.pc = "done"
  /\ wf.run < MaxRuns
  /\ wf' = [WfStart EXCEPT !.run = wf.run + 1]
  /\ UNCHANGED <<envVars, apiCall, ops, uiVars, storedView, markup, cls, originalContentBackup,
                 currentContentContainer, isContentReplaced, toggleButton, currentView,
                 defaultView, processedMarkdownHTML, tasks, lastToggle, firstAnalysis,
                 lastAnalysis>>

\* ------------------------------------------------------------------------
\* Specifications
\* ------------------------------------------------------------------------
NotAnalyzed ==
  [content |-> <<>>, called |-> FALSE, result |-> NegativeAnalysis,
   at |-> [replaced |-> FALSE, view |-> "raw", toggled |-> FALSE]]

\* The content script's own variables when its IIFE has run, on a page
\* that shows origText.
InitScript ==
  /\ markup = OrigMarkup(origText)
  /\ cls = origCls
  /\ originalContentBackup = NoBackup
  /\ currentContentContainer = FALSE
  /\ isContentReplaced = FALSE
  /\ toggleButton = NoButton
  /\ currentView = "raw"
  /\ defaultView = "rendered"
  /\ processedMarkdownHTML = NoHTML
  /\ wf = WfStart
  /\ tasks = <<>>
  /\ lastToggle = NoCall
  /\ firstAnalysis = NotAnalyzed
  /\ lastAnalysis = NotAnalyzed
  /\ apiCall = NoApiCall
  /\ loadingIndicator = FALSE
  /\ loadingTimeout = FALSE
  /\ ops = NoOps
  /\ themeClasses = {}
  /\ indicatorElements = {}
  /\ autoHideTimers = {}
  \* no error has been logged in the session yet
  /\ errorLog = <<>>
  /\ logged = 0

Init ==
  /\ hasContainer \in BOOLEAN
  /\ origText \in (IF hasContainer THEN NonEmptyTexts ELSE Texts)
  /\ fileExt \in FileExts
  /\ storageMode \in {"ok", "throws", "undefined"}
  /\ storedView \in (IF storageMode = "ok" THEN StoredValues ELSE {NoItem})
  /\ origCls \in (IF hasContainer THEN ClassNames ELSE {<<>>})
  /\ largeHTML = FALSE
  /\ storedTheme = NoItem
  /\ InitScript

\* The content script as the browser runs it on a Slack RAW page (Step 1
\* passes): one workflow per page load, then user events.
Next ==
  \/ WorkflowStart
  \/ WorkflowParse
  \/ WorkflowStyle
  \/ WorkflowReplace
  \/ WorkflowFinish
  \/ UserToggle
  \/ TaskStep

Spec == Init /\ [][Next]_vars

\* The same, with functions also called directly.
NextApi ==
  \/ Next
  \/ ApiToggleView

SpecApi == Init /\ [][NextApi]_vars

\* The browser's run, with analyzeContentType also called directly on the
\* page's text at any moment.
NextAnalyze ==
  \/ Next
  \/ ApiAnalyze

SpecAnalyze == Init /\ [][NextAnalyze]_vars

\* analyzeContentType alone, on pages whose text is drawn from ClassifierInputs.
InitClassify ==
  /\ hasContainer = TRUE
  /\ origText \in ClassifierInputs
  /\ fileExt \in FileExts
  /\ storageMode = "ok"
  /\ storedView = NoItem
  /\ origCls = <<>>
  /\ largeHTML = FALSE
  /\ storedTheme = NoItem
  /\ InitScript

NextClassify == ApiAnalyze

SpecClassify == InitClassify /\ [][NextClassify]_vars

\* The browser's run, with the workflow invoked again on the same page.
NextRerun ==
  \/ Next
  \/ ApiRerunWorkflow

SpecRerun == Init /\ [][NextRerun]_vars

\* ------------------------------------------------------------------------
\* Properties
\* ------------------------------------------------------------------------
\* No pipeline stage and no toggle is in flight.
Quiescent == wf.pc \in {"start", "done"} /\ tasks = <<>>

\* C1: once the content has been replaced and then restored (the snapshot
\* exists and the container is no longer marked as replaced), the container's
\* markup and its class attribute are exactly those the page had before the
\* replacement.
C1_RoundTripRestoresOriginal ==
  (originalContentBackup.present /\ ~isContentReplaced)
    => (markup = OrigMarkup(origText) /\ cls = origCls)

\* C2: at every quiescent point the container shows what currentView says:
\* the original markup in the raw view, the cached rendered HTML in the
\* rendered view.
C2_ViewMatchesContainer ==
  Quiescent =>
    /\ currentView = "raw" => markup = OrigMarkup(origText)
    /\ currentView = "rendered" => markup = processedMarkdownHTML

\* A toggle started by a click or a key press is suspended at an await.
ClickInFlight == \E i \in 1..Len(tasks) : tasks[i].origin = "click"

\* C3: at most one toggle transition is in flight; while a transition started
\* from the button is in flight the button is disabled; and the button goes
\* from disabled to enabled only in the step in which that transition settles.
C3_OneToggleInFlight ==
  /\ [](Len(tasks) <= 1 /\ (ClickInFlight => toggleButton.disabled))
  /\ [][(toggleButton.disabled /\ ~toggleButton'.disabled)
          => (ClickInFlight /\ tasks' = <<>>)]_vars

\* A click has started the switch to the rendered view and it has not settled.
C3_Witness == ClickInFlight /\ toggleButton.disabled /\ isContentReplaced

\* C4: once a snapshot exists it holds the markup and the class attribute
\* the container had before the first replacement, whatever replacements,
\* restores, toggles and further pipeline runs have happened since.
C4_SnapshotIsOriginal ==
  originalContentBackup.present
    => /\ originalContentBackup.innerHTML = OrigMarkup(origText)
       /\ originalContentBackup.className = origCls

C6_NoContainerAborts ==
  (wf.pc = "done" /\ ~hasContainer /\ wf.replaced = "failed")
    => /\ markup = OrigMarkup(origText) /\ cls = origCls
       /\ ~originalContentBackup.present
       /\ ~toggleButton.attached
       /\ currentView = "raw"

\* C7: a toggleView call made in the raw view while no rendered HTML is
\* cached returns false and leaves the container's markup and class, the
\* snapshot, currentView and the stored view preference as they were.
C7_ToggleWithoutCacheFails ==
  [][(ApiToggleView /\ currentView = "raw" /\ ~IsValidHTML(processedMarkdownHTML))
       => /\ lastToggle' = Settled(FALSE, "raw", "api")
          /\ UNCHANGED <<markup, cls, originalContentBackup, currentView, storedView,
                         defaultView, isContentReplaced, tasks>>]_vars

\* Such a call has been made and has returned false.
C7_Witness ==
  /\ lastToggle = Settled(FALSE, "raw", "api")
  /\ ~IsValidHTML(processedMarkdownHTML)
  /\ currentView = "raw"

\* The step is a click whose toggleView call settles within the step.
ClickSettles == UserToggle /\ tasks' = tasks
\* The step completes the suspended call a click started.
ClickTaskSettles == TaskStep /\ ClickInFlight /\ Len(tasks') < Len(tasks)

\* C8: a toggle made in the rendered view that returns true restores the
\* snapshot and ends with currentView = 'raw'; a toggle made in the raw view
\* with cached HTML puts the cached HTML into the container and, when it
\* returns true, ends with currentView = 'rendered'; a toggle that returns
\* true always ends in the view other than the one it started in.
C8_ToggleTransition ==
  /\ [][(ClickSettles /\ currentView = "rendered" /\ lastToggle'.ret)
          => /\ currentView' = "raw"
             /\ markup' = originalContentBackup.innerHTML
             /\ ~isContentReplaced']_vars
  /\ [][(UserToggle /\ currentView = "raw" /\ Len(tasks') > Len(tasks))
          => /\ markup' = processedMarkdownHTML
             /\ isContentReplaced']_vars
  /\ [][ClickTaskSettles
          => /\ lastToggle' = Settled(TRUE, "raw", "click")
             /\ currentView' = "rendered"
             /\ markup' = processedMarkdownHTML]_vars
  /\ [][((ClickSettles \/ ClickTaskSettles) /\ lastToggle'.ret)
          => (currentView' # lastToggle'.preView /\ currentView' \in ViewModes)]_vars

\* A click has switched to the raw view and a later click back to the
\* rendered view.
C8_Witness ==
  /\ lastToggle = Settled(TRUE, "raw", "click")
  /\ currentView = "rendered"
  /\ markup = processedMarkdownHTML
  /\ originalContentBackup.present

\* The first line of the text that is not blank begins with '#'.
FirstNonBlankLineBeginsWithHash(c) ==
  \E i \in 1..Len(c) :
    /\ c[i] = "#"
    /\ (i = 1 \/ c[i - 1] = NL)
    /\ \A j \in 1..(i - 1) : c[j] \in WhiteSpace

ChangeLocation ==
  /\ fileExt' \in FileExts \ {fileExt}
  /\ UNCHANGED <<hasContainer, origText, storageMode, origCls, storedView, markup, cls,
                 originalContentBackup, currentContentContainer, isContentReplaced,
                 toggleButton, currentView, defaultView, processedMarkdownHTML, wf,
                 tasks, lastToggle, firstAnalysis, lastAnalysis, apiCall, largeHTML, ops,
                 uiVars>>

NextPurity ==
  \/ ApiAnalyze
  \/ ChangeLocation

SpecPurity == InitClassify /\ [][NextPurity]_vars

\* C11: the complete analysis returned by analyzeContentType (isMarkdown,
\* confidence, detectedFeatures and fileExtension) depends on the content
\* alone: two calls on the same content return identical results, whatever
\* the page URL is at each call.
C11_ClassifierPure ==
  (firstAnalysis.called /\ lastAnalysis.content = firstAnalysis.content)
    => lastAnalysis.result = firstAnalysis.result

\* ---------------------------------------------------------------------------
\* The classifier on a sample and on the sample with one more line.

\* The text with the line inserted before its i-th line (after the last one
\* when i is one more than the number of lines).
InsertLine(content, i, line) ==
  LET lines == Split(content, NL)
  IN Join(SubSeq(lines, 1, i - 1) \o <<line>> \o SubSeq(lines, i, Len(lines)), NL)

Insertions(content) ==
  {InsertLine(content, i, line) :
     i \in 1 .. Len(Split(content, NL)) + 1, line \in LineVocabulary}

\* analyzeContentType called on the page's text with one line added, right
\* after the text itself has been analysed.
ApiAnalyzeExtended ==
  /\ firstAnalysis.called
  /\ lastAnalysis.content = origText
  /\ \E content \in Insertions(origText) : RecordAnalysis(content)
  /\ UNCHANGED <<envVars, apiCall, ops, uiVars, storedView, markup, cls, originalContentBackup,
                 currentContentContainer, isContentReplaced, toggleButton, currentView,
                 defaultView, processedMarkdownHTML, wf, tasks, lastToggle>>

\* Samples of fewer than MaxLines lines, on a page whose URL has no extension
\* (the confidence is computed from the content only).
InitMonotone ==
  /\ hasContainer = TRUE
  /\ origText \in TextsOfLines(MaxLines - 1)
  /\ fileExt = NoExt
  /\ storageMode = "ok"
  /\ storedView = NoItem
  /\ origCls = <<>>
  /\ largeHTML = FALSE
  /\ storedTheme = NoItem
  /\ InitScript

NextMonotone ==
  \/ ApiAnalyze
  \/ ApiAnalyzeExtended

SpecMonotone == InitMonotone /\ [][NextMonotone]_vars

InSeq(x, seq) == \E k \in 1 .. Len(seq) : seq[k] = x

\* The first analysis found exactly one feature and the latest one is of the
\* same sample with a line added that brought exactly one more feature.
SecondFeatureAdded ==
  /\ firstAnalysis.called
  /\ Len(firstAnalysis.result.detectedFeatures) = 1
  /\ Len(lastAnalysis.result.detectedFeatures) = 2
  /\ InSeq(firstAnalysis.result.detectedFeatures[1], lastAnalysis.result.detectedFeatures)
  /\ lastAnalysis.content \in Insertions(firstAnalysis.content)

\* C12: when a sample has exactly one detected feature and a second
\* detectable feature is added to it, at any line including before the first
\* one, the confidence of the two-feature sample is at least that of the
\* single-feature sample.
C12_ConfidenceMonotone ==
  SecondFeatureAdded => lastAnalysis.result.confidence >= firstAnalysis.result.confidence

\* A header sample (0.25 with the first-line bonus) gets a second feature on
\* a new first line, which takes the first-line bonus away (0.40).
C12_Witness ==
  /\ SecondFeatureAdded
  /\ StartsWithHash(firstAnalysis.content)
  /\ ~StartsWithHash(lastAnalysis.content)
  /\ firstAnalysis.result.confidence = FeatureIncrement + HeaderStartBonus
  /\ lastAnalysis.result.confidence = 2 * FeatureIncrement + MultiFeatureBonus

\* ---------------------------------------------------------------------------
\* The entry points called directly, one call per run, on a page of any text
\* and URL.

\* The outcome of a call whose result is r: r itself when r is a thrown error.
Outcome(r) == IF IsThrown(r) THEN r ELSE Return(r)

Call(fn, arg, outcome) ==
  /\ apiCall = NoApiCall
  /\ apiCall' = [fn |-> fn, arg |-> arg, outcome |-> outcome]
  /\ UNCHANGED <<envVars, ops, uiVars, storedView, markup, cls, originalContentBackup,
                 currentContentContainer, isContentReplaced, toggleButton, currentView,
                 defaultView, processedMarkdownHTML, wf, tasks, lastToggle,
                 firstAnalysis, lastAnalysis>>

\* Content arguments: one-line strings, the empty string, a blank string and
\* non-strings.
ContentArguments == LineVocabulary \cup {<<" ">>} \cup NonStrings

ApiAnalyzeContentType ==
  \E content \in ContentArguments :
    Call("analyzeContentType", content, Outcome(analyzeContentType(content)))

ApiDetectMarkdownContent ==
  \E content \in ContentArguments :
    Call("detectMarkdownContent", content, Return(detectMarkdownContent(content)))

\* What the marked global does when parseMarkdown uses it: it parses, throws
\* an Error, throws null, returns a value that is not a string, or is not
\* defined.
MarkedBehaviours == {"ok", "throws", "throwsNull", "nonstring", "missing"}

\* marked.parse(t) as a value: HTML made from the text t.
ParsedHTML(t) == [kind |-> "parsed", text |-> t]

\* null in the error field of a result
NoError == "<null>"

parseMarkdown(markdownContent, marked) ==
  IF ~IsString(markdownContent) THEN Throw("Markdown content must be a string")
  ELSE IF Len(Trim(markdownContent)) = 0 THEN Return(<<>>)
  ELSE CASE marked = "ok" -> Return(ParsedHTML(markdownContent))
         [] marked = "missing" ->
              Throw("Failed to parse Markdown: Marked.js library is not loaded")
         [] marked = "nonstring" ->
              Throw("Failed to parse Markdown: Marked.js returned non-string result")
         [] marked = "throws" -> Throw("Failed to parse Markdown: <message>")
         [] marked = "throwsNull" ->
              Throw("Cannot read properties of null (reading 'message')")

\* safeParseMarkdown without its try block: what parseMarkdown throws reaches
\* the caller.
safeParseMarkdownNoCatch(content, marked) ==
  LET parsed == parseMarkdown(content, marked)
  IN IF ~parsed.threw
     THEN Return([html |-> parsed.value, success |-> TRUE, error |-> NoError])
     ELSE parsed

safeParseMarkdown(content, marked) ==
  LET parsed == parseMarkdown(content, marked)
  IN IF ~parsed.threw
     THEN Return([html |-> parsed.value, success |-> TRUE, error |-> NoError])
     ELSE LET fallbackHTML == handleParsingError(content)
          IN IF IsThrown(fallbackHTML) THEN fallbackHTML
             ELSE Return([html |-> NoHTML, success |-> FALSE, error |-> parsed.value,
                          fallbackHTML |-> fallbackHTML])

\* generateStyledHTML wraps the HTML, the empty string included.
generateStyledHTML(htmlContent) ==
  IF htmlContent = <<>> THEN StyledHTML(<<>>) ELSE StyledHTML(htmlContent.text)

processMarkdownContentSync(markdownContent, marked) ==
  LET result == safeParseMarkdown(markdownContent, marked)
  IN IF result.threw THEN result
     ELSE IF ~result.value.success
     THEN Return([html |-> NoHTML,
                  styledHTML |-> result.value.fallbackHTML,
                  success |-> FALSE, fallbackUsed |-> TRUE, error |-> result.value.error])
     ELSE Return([html |-> result.value.html,
                  styledHTML |-> generateStyledHTML(result.value.html),
                  success |-> TRUE, fallbackUsed |-> FALSE, error |-> NoError])

\* processMarkdownContent called without a progress callback.
processMarkdownContent(markdownContent, marked) ==
  processMarkdownContentSync(markdownContent, marked)

ApiProcessMarkdownContent ==
  \E content \in ContentArguments, marked \in MarkedBehaviours :
    Call("processMarkdownContent", [content |-> content, marked |-> marked],
         processMarkdownContent(content, marked))

\* ---------------------------------------------------------------------------
\* URLs: new URL(url) on strings of characters, for what detectSlackRawUrl
\* reads of the result (hostname and pathname).

UpperCaseLetters ==
  <<"A", "B", "C", "D", "E", "F", "G", "H", "I", "J", "K", "L", "M",
    "N", "O", "P", "Q", "R", "S", "T", "U", "V", "W", "X", "Y", "Z">>
LowerCaseLetters ==
  <<"a", "b", "c", "d", "e", "f", "g", "h", "i", "j", "k", "l", "m",
    "n", "o", "p", "q", "r", "s", "t", "u", "v", "w", "x", "y", "z">>

\* ASCII lower-casing of a string.
AsciiLowerCase(s) ==
  [i \in 1 .. Len(s) |->
     IF \E k \in 1 .. 26 : UpperCaseLetters[k] = s[i]
     THEN LowerCaseLetters[CHOOSE k \in 1 .. 26 : UpperCaseLetters[k] = s[i]]
     ELSE s[i]]

\* String.prototype.startsWith
StartsWith(s, prefix) ==
  Len(s) >= Len(prefix) /\ SubSeq(s, 1, Len(prefix)) = prefix

\* The index of the first character of s that is in set, Len(s) + 1 if none.
IndexOfAny(s, set) ==
  IF \E i \in 1 .. Len(s) : s[i] \in set
  THEN CHOOSE i \in 1 .. Len(s) : s[i] \in set /\ \A j \in 1 .. i - 1 : s[j] \notin set
  ELSE Len(s) + 1

\* The index of the last occurrence of c in s, 0 if none.
LastIndexOf(s, c) ==
  IF \E i \in 1 .. Len(s) : s[i] = c
  THEN CHOOSE i \in 1 .. Len(s) : s[i] = c /\ \A j \in i + 1 .. Len(s) : s[j] # c
  ELSE 0

DropFirst(s, n) == SubSeq(s, n + 1, Len(s))

RECURSIVE LeadingSlashes(_)
LeadingSlashes(s) ==
  IF s # <<>> /\ Head(s) = "/" THEN 1 + LeadingSlashes(Tail(s)) ELSE 0

DecimalDigits == {"0", "1", "2", "3", "4", "5", "6", "7", "8", "9"}

\* The special schemes (file apart): their URLs have a host that is not
\* empty and read the backslash as a slash.
SpecialSchemes ==
  { <<"h", "t", "t", "p">>,
    <<"h", "t", "t", "p", "s">>,
    <<"f", "t", "p">>,
    <<"w", "s">>,
    <<"w", "s", "s">> }


SchemeChars ==
  {LowerCaseLetters[k] : k \in 1 .. 26} \cup DecimalDigits \cup {"+", "-", "."}

IsScheme(s) ==
  /\ Len(s) > 0
  /\ \E k \in 1 .. 26 : LowerCaseLetters[k] = s[1]
  /\ \A i \in 1 .. Len(s) : s[i] \in SchemeChars

\* Characters a host may not contain.
ForbiddenHostChars == {" ", "<", ">", "[", "\\", "]", "^", "|", "%"}

\* Removal of the dot segments of a path, segment by segment.
RECURSIVE RemoveDotSegments(_, _)
RemoveDotSegments(segments, acc) ==
  IF segments = <<>> THEN acc
  ELSE LET seg == Head(segments)
           closing == IF Len(segments) = 1 THEN << <<>> >> ELSE <<>>
       IN IF seg = <<".", ".">>
          THEN RemoveDotSegments(Tail(segments),
                 (IF acc = <<>> THEN acc ELSE SubSeq(acc, 1, Len(acc) - 1)) \o closing)
          ELSE IF seg = <<".">>
          THEN RemoveDotSegments(Tail(segments), acc \o closing)
          ELSE RemoveDotSegments(Tail(segments), Append(acc, seg))

\* new URL(url) without a base: the hostname and pathname of the URL record,
\* or a TypeError.
ParseURL(url) ==
  LET colon == IndexOfAny(url, {":"})
      scheme == AsciiLowerCase(SubSeq(url, 1, colon - 1))
      special == scheme \in SpecialSchemes
      afterColon == DropFirst(url, colon)
      \* a special scheme reads the backslash as a slash
      rest == IF special
              THEN [i \in 1 .. Len(afterColon) |->
                      IF afterColon[i] = "\\" THEN "/" ELSE afterColon[i]]
              ELSE afterColon
      \* a special scheme skips any number of slashes before the authority
      slashes == LeadingSlashes(rest)
      hasAuthority == special \/ StartsWith(rest, <<"/", "/">>)
      afterSlashes == DropFirst(rest, IF special THEN slashes ELSE 2)
      authorityEnd == IndexOfAny(afterSlashes, {"/", "?", "#"})
      authority == SubSeq(afterSlashes, 1, authorityEnd - 1)
      hostport == DropFirst(authority, LastIndexOf(authority, "@"))
      portColon == LastIndexOf(hostport, ":")
      host == IF portColon = 0 THEN hostport ELSE SubSeq(hostport, 1, portColon - 1)
      port == IF portColon = 0 THEN <<>> ELSE DropFirst(hostport, portColon)
      tail == IF hasAuthority THEN DropFirst(afterSlashes, authorityEnd - 1) ELSE rest
      rawPath == SubSeq(tail, 1, IndexOfAny(tail, {"?", "#"}) - 1)
      segments == IF rawPath = <<>> THEN <<>> ELSE Split(Tail(rawPath), "/")
      path == <<"/">> \o Join(RemoveDotSegments(segments, <<>>), "/")
  IN IF colon > Len(url) \/ ~IsScheme(scheme) THEN Throw("TypeError: Invalid URL")
     ELSE IF ~hasAuthority
     THEN \* no host: a path that starts with a slash, or an opaque path
          Return([hostname |-> <<>>,
                  pathname |-> IF StartsWith(rawPath, <<"/">>) THEN path ELSE rawPath])
     ELSE IF host = <<>> /\ (special \/ portColon # 0 \/ LastIndexOf(authority, "@") # 0)
     THEN Throw("TypeError: Invalid URL")
     ELSE IF \E i \in 1 .. Len(host) : host[i] \in ForbiddenHostChars
     THEN Throw("TypeError: Invalid URL")
     ELSE IF \E i \in 1 .. Len(port) : port[i] \notin DecimalDigits
     THEN Throw("TypeError: Invalid URL")
     ELSE Return([hostname |-> IF special THEN AsciiLowerCase(host) ELSE host,
                  pathname |-> IF rawPath = <<>> /\ ~special THEN <<>> ELSE path])


SlackHostname == <<"f", "i", "l", "e", "s", ".", "s", "l", "a", "c", "k", ".", "c", "o", "m">>
FilesPriPath == <<"/", "f", "i", "l", "e", "s", "-", "p", "r", "i", "/">>


\* detectSlackRawUrl with hostname.endsWith in place of the equality
detectSlackRawUrlHostSuffix(url) ==
  IF ~IsString(url) \/ Len(url) = 0 THEN FALSE
  ELSE LET urlObj == ParseURL(url)
       IN IF urlObj.threw THEN FALSE
          ELSE /\ Len(urlObj.value.hostname) >= Len(SlackHostname)
               /\ DropFirst(urlObj.value.hostname,
                            Len(urlObj.value.hostname) - Len(SlackHostname)) = SlackHostname
               /\ StartsWith(urlObj.value.pathname, FilesPriPath)

detectSlackRawUrl(url) ==
  IF ~IsString(url) \/ Len(url) = 0 THEN FALSE
  ELSE LET urlObj == ParseURL(url)
       IN IF urlObj.threw THEN FALSE
          ELSE /\ urlObj.value.hostname = SlackHostname
               /\ StartsWith(urlObj.value.pathname, FilesPriPath)


\* URL arguments: strings put together from a scheme, slashes, userinfo, a
\* host, a port and a path.
UrlStrings ==
  LET \* scheme with its colon, or none
      schemes ==
        { <<"h", "t", "t", "p", "s", ":">>,
          <<"h", "t", "t", "p", ":">>,
          <<"H", "T", "T", "P", "S", ":">>,
          <<"s", "l", "a", "c", "k", ":">>,
          <<>> }
      \* slashes after the scheme
      slashesSet ==
        { <<"/", "/">>,
          <<>>,
          <<"/", "\\">> }
      \* userinfo
      userinfos ==
        { <<>>,
          <<"f", "i", "l", "e", "s", ".", "s", "l", "a", "c", "k", ".", "c", "o", "m", "@">> }
      \* host
      hosts ==
        { <<"f", "i", "l", "e", "s", ".", "s", "l", "a", "c", "k", ".", "c", "o", "m">>,
          <<"F", "i", "l", "e", "s", ".", "S", "l", "a", "c", "k", ".", "c", "o", "m">>,
          <<"x", "f", "i", "l", "e", "s", ".", "s", "l", "a", "c", "k", ".", "c", "o", "m">>,
          <<"f", "i", "l", "e", "s", ".", "s", "l", "a", "c", "k", ".", "c", "o", "m", ".", "x", ".", "i", "o">>,
          <<"a", " ", "b">>,
          <<>> }
      \* port
      ports ==
        { <<>>,
          <<":", "8", "4", "4", "3">>,
          <<":", "x">> }
      \* path, query and fragment
      paths ==
        { <<>>,
          <<"/", "f", "i", "l", "e", "s", "-", "p", "r", "i">>,
          <<"/", "f", "i", "l", "e", "s", "-", "p", "r", "i", "/">>,
          <<"/", "f", "i", "l", "e", "s", "-", "p", "r", "i", "/", "T", "1", "/", "x", ".", "m", "d">>,
          <<"/", "f", "i", "l", "e", "s", "-", "p", "r", "i", "v", "a", "t", "e", "/", "x">>,
          <<"/", "x", "/", "f", "i", "l", "e", "s", "-", "p", "r", "i", "/">>,
          <<"/", "f", "i", "l", "e", "s", "-", "p", "r", "i", "/", ".", ".", "/", "x">>,
          <<"/", ".", "/", "f", "i", "l", "e", "s", "-", "p", "r", "i", "/", "x">>,
          <<"/", "F", "i", "l", "e", "s", "-", "P", "r", "i", "/", "x">>,
          <<"\\", "f", "i", "l", "e", "s", "-", "p", "r", "i", "\\", "x">>,
          <<"?", "u", "=", "/", "f", "i", "l", "e", "s", "-", "p", "r", "i", "/">> }
  IN {scheme \o slashes \o userinfo \o host \o port \o path :
        scheme \in schemes, slashes \in slashesSet, userinfo \in userinfos,
        host \in hosts, port \in ports, path \in paths}

UrlArguments == UrlStrings \cup NonStrings

ApiDetectSlackRawUrl ==
  \E url \in UrlArguments :
    Call("detectSlackRawUrl", url, Return(detectSlackRawUrl(url)))

\* Extension arguments: null, undefined, the empty string, the listed
\* extensions in lower and mixed case, other extensions and near misses.
ExtensionArguments ==
  {NoExt, UndefinedExt, "", "md", "markdown", "mdown", "mkd", "mkdn",
   "MD", "Markdown", "MARKDOWN", "Mdown", "MKD", "mkDN",
   "txt", "TXT", "js", "html", "Html", "css", "mdx", "m", ".md", "md "}

ApiIsMarkdownExtension ==
  \E extension \in ExtensionArguments :
    Call("isMarkdownExtension", extension, Return(isMarkdownExtension(extension)))

\* shouldProcessAsMarkdown on the samples of fewer than MaxLines lines and an
\* extension as extractFileExtension returns it (lower case or null), or as a
\* caller may pass it.
ApiShouldProcessAsMarkdown ==
  \E content \in TextsOfLines(MaxLines - 1),
     fileExtension \in {NoExt, UndefinedExt, "", "md", "Markdown", "txt"} :
    Call("shouldProcessAsMarkdown",
         [content |-> content, fileExtension |-> fileExtension],
         Return(shouldProcessAsMarkdown(content, fileExtension)))

\* handleNonMarkdownContent on samples of up to MaxMixedLines lines: some
\* lines of Markdown syntax (a bullet, or an ordered-list item, which the
\* line pattern knows and the classifier does not) followed by plain lines.
RECURSIVE Repeat(_, _)
Repeat(line, n) == IF n = 0 THEN <<>> ELSE <<line>> \o Repeat(line, n - 1)

MixedSamples ==
  UNION {{Join(Repeat(markdownLine, k) \o Repeat(<<"x">>, n - k), NL) :
            markdownLine \in {<<"-", " ", "x">>, <<"1", ".", " ", "x">>},
            k \in 0..n} : n \in 1..MaxMixedLines}

ApiHandleNonMarkdownContent ==
  \E content \in MixedSamples \cup LineVocabulary \cup {<<" ">>},
     fileExtension \in {NoExt, "md", "txt"} :
    Call("handleNonMarkdownContent",
         [content |-> content, fileExtension |-> fileExtension],
         Return(handleNonMarkdownContent(content, fileExtension)))

InitEntry ==
  /\ hasContainer = TRUE
  /\ origText = <<"x">>
  /\ fileExt \in FileExts
  /\ storageMode = "ok"
  /\ storedView = NoItem
  /\ origCls = <<>>
  /\ largeHTML = FALSE
  /\ storedTheme = NoItem
  /\ InitScript

NextEntry ==
  \/ ApiAnalyzeContentType
  \/ ApiDetectMarkdownContent
  \/ ApiProcessMarkdownContent
  \/ ApiDetectSlackRawUrl
  \/ ApiIsMarkdownExtension
  \/ ApiShouldProcessAsMarkdown
  \/ ApiHandleNonMarkdownContent

SpecEntry == InitEntry /\ [][NextEntry]_vars

\* The argument is the empty string or not a string.
NegativeInput(v) == ~IsString(v) \/ v = <<>>

\* C13: for an empty string, null, undefined or any other non-string
\* argument, analyzeContentType does not throw and returns the negative
\* analysis (isMarkdown false, confidence 0, no detected feature), and
\* detectMarkdownContent returns false.
C13_NegativeInputSafety ==
  /\ (apiCall.fn = "analyzeContentType" /\ NegativeInput(apiCall.arg)) =>
       /\ ~apiCall.outcome.threw
       /\ apiCall.outcome.value.isMarkdown = FALSE
       /\ apiCall.outcome.value.confidence = 0
       /\ apiCall.outcome.value.detectedFeatures = <<>>
  /\ (apiCall.fn = "detectMarkdownContent" /\ NegativeInput(apiCall.arg)) =>
       /\ ~apiCall.outcome.threw
       /\ apiCall.outcome.value = FALSE

\* analyzeContentType(undefined) on a page whose URL ends in .md.
C13_Witness ==
  /\ apiCall.fn = "analyzeContentType"
  /\ apiCall.arg = NonString("undefined")
  /\ fileExt = "md"
  /\ ~apiCall.outcome.threw
  /\ apiCall.outcome.value = NegativeAnalysis

\* C14: processMarkdownContent called with null, undefined, a number, an
\* object or an array does not throw and returns a result with success false
\* and a non-empty string as its error.
C14_ParserNegativeInputSafety ==
  (apiCall.fn = "processMarkdownContent" /\ ~IsString(apiCall.arg.content)) =>
    /\ ~apiCall.outcome.threw
    /\ apiCall.outcome.value.success = FALSE
    /\ apiCall.outcome.value.error \notin {NoError, ""}

\* marked is consulted: the content is a string that is not blank.
MarkedConsulted(content) == IsString(content) /\ Len(Trim(content)) > 0

\* C15: when marked.parse throws, returns a non-string, or the library is
\* missing, processMarkdownContent does not throw: it returns a failure
\* result with success false, a non-empty error message and the fallback
\* rendering of the original text.
C15_ParserFailureContained ==
  (/\ apiCall.fn = "processMarkdownContent"
   /\ MarkedConsulted(apiCall.arg.content)
   /\ apiCall.arg.marked # "ok") =>
    /\ ~apiCall.outcome.threw
    /\ apiCall.outcome.value.success = FALSE
    /\ apiCall.outcome.value.error \notin {NoError, ""}
    /\ apiCall.outcome.value.styledHTML = FallbackHTML(apiCall.arg.content)
    /\ apiCall.outcome.value.fallbackUsed

\* The library is missing when a header line is processed.
C15_Witness ==
  /\ apiCall.fn = "processMarkdownContent"
  /\ apiCall.arg = [content |-> <<"#", " ", "x">>, marked |-> "missing"]
  /\ ~apiCall.outcome.threw
  /\ apiCall.outcome.value.success = FALSE
  /\ apiCall.outcome.value.styledHTML = FallbackHTML(<<"#", " ", "x">>)

\* C16: processMarkdownContent called with an empty or whitespace-only
\* string does not throw and returns a failure result (success false), not a
\* successful rendering.
C16_EmptyInputIsFailure ==
  (/\ apiCall.fn = "processMarkdownContent"
   /\ IsString(apiCall.arg.content)
   /\ Len(Trim(apiCall.arg.content)) = 0) =>
    /\ ~apiCall.outcome.threw
    /\ apiCall.outcome.value.success = FALSE

C18_ActivationPattern ==
  (apiCall.fn = "detectSlackRawUrl" /\ IsString(apiCall.arg)) =>
    apiCall.outcome =
      Return(StartsWith(apiCall.arg,
                        <<"h", "t", "t", "p", "s", ":", "/", "/">> \o SlackHostname
                          \o FilesPriPath))

\* C19: isMarkdownExtension(x) is true exactly when x is a non-empty string
\* whose lower-cased value is md, markdown, mdown, mkd or mkdn; it is false
\* for null, undefined, the empty string and for txt, js, html and css.
C19_ExtensionAllowList ==
  apiCall.fn = "isMarkdownExtension" =>
    /\ ~apiCall.outcome.threw
    /\ apiCall.outcome.value =
         (apiCall.arg \in {"md", "markdown", "mdown", "mkd", "mkdn",
                           "MD", "Markdown", "MARKDOWN", "Mdown", "MKD", "mkDN"})
    /\ apiCall.arg \in {NoExt, UndefinedExt, "", "txt", "js", "html", "css"}
         => apiCall.outcome.value = FALSE

\* An extension in upper case is recognised.
C19_Witness ==
  /\ apiCall.fn = "isMarkdownExtension"
  /\ apiCall.arg = "MKD"
  /\ apiCall.outcome = Return(TRUE)

\* C20: for every non-empty string content and every extension value,
\* shouldProcessAsMarkdown returns shouldProcess true exactly when the
\* extension is in the allow-list, or the classifier confidence is above 0.3,
\* or it is above 0.6; and when the extension is in the allow-list the
\* reported confidence is at least 0.7.
C20_DecisionPolicy ==
  (apiCall.fn = "shouldProcessAsMarkdown" /\ Len(apiCall.arg.content) > 0) =>
    LET listed == ToLowerCase(apiCall.arg.fileExtension) \in MarkdownExtensions
        confidence == analyzeContentType(apiCall.arg.content).confidence
    IN /\ ~apiCall.outcome.threw
       /\ apiCall.outcome.value.shouldProcess =
            (listed \/ confidence > ContentConfidenceMin \/ confidence > HighConfidenceMin)
       /\ listed => apiCall.outcome.value.confidence >= ExtensionConfidenceFloor

\* Content alone decides: no listed extension, confidence between 0.3 and 0.6.
C20_Witness ==
  /\ apiCall.fn = "shouldProcessAsMarkdown"
  /\ apiCall.arg.fileExtension = "txt"
  /\ apiCall.outcome.value.shouldProcess
  /\ apiCall.outcome.value.confidence > ContentConfidenceMin
  /\ apiCall.outcome.value.confidence <= HighConfidenceMin

\* C21: for content the decision policy rejects, handleNonMarkdownContent
\* returns action 'process_as_markdown' whenever at least 30% of the
\* non-blank lines match the line pattern of handleMixedContent (exactly 30%
\* included), and 'preserve_original' otherwise.
C21_MixedContentFallback ==
  (/\ apiCall.fn = "handleNonMarkdownContent"
   /\ ~shouldProcessAsMarkdown(apiCall.arg.content, apiCall.arg.fileExtension).shouldProcess) =>
    LET counts == CountLines(Split(apiCall.arg.content, NL))
        nonBlank == counts[1] + counts[2]
    IN /\ ~apiCall.outcome.threw
       /\ apiCall.outcome.value.action =
            IF nonBlank > 0 /\ 10 * counts[1] >= 3 * nonBlank
            THEN "process_as_markdown" ELSE "preserve_original"

\* C22: whenever the pipeline decides not to process the content as
\* Markdown, the run leaves the page as it was: the container's markup and
\* class are the host's, no snapshot is taken, no rendered HTML is cached, no
\* toggle control is attached and currentView is still 'raw'.
C22_NonMarkdownPreserved ==
  wf.result = "preserved" =>
    /\ markup = OrigMarkup(origText)
    /\ cls = origCls
    /\ ~isContentReplaced
    /\ originalContentBackup = NoBackup
    /\ processedMarkdownHTML = NoHTML
    /\ ~toggleButton.exists /\ ~toggleButton.attached
    /\ currentView = "raw"

\* Plain text on a URL without a Markdown extension, in a container that
\* carries a class of its own.
C22_Witness ==
  /\ wf.pc = "done" /\ wf.result = "preserved"
  /\ hasContainer /\ origText = <<"x">> /\ fileExt = NoExt
  /\ origCls = <<" ", "a">>
  /\ lastAnalysis.called /\ ~lastAnalysis.result.isMarkdown

\* ---------------------------------------------------------------------------
\* The preference functions called directly, in any order, on a store that
\* works, throws, or is missing.

\* A direct call that changes the state to s.
CallOn(s, fn, arg, outcome) ==
  /\ Commit(s)
  /\ apiCall' = [fn |-> fn, arg |-> arg, outcome |-> outcome]
  /\ UNCHANGED <<envVars, ops, wf, lastToggle, firstAnalysis, lastAnalysis>>

Undefined == "<undefined>"

ApiSaveSessionPreference ==
  \E viewMode \in ViewModes \cup {"junk"} :
    CallOn(saveSessionPreference(S, viewMode), "saveSessionPreference", viewMode,
           Return(Undefined))

ApiLoadSessionPreference ==
  LET l == loadSessionPreference(S)
  IN CallOn(l.s, "loadSessionPreference", Undefined, Return(l.value))

ApiClearSessionPreference ==
  CallOn(clearSessionPreference(S), "clearSessionPreference", Undefined, Return(Undefined))

StoredThemes == {NoItem, "", "white", "paper", "Paper", "light-gray", "invalid-theme", "dark"}

ApiSaveThemePreference ==
  \E theme \in StoredThemes \ {NoItem} :
    CallOn(saveThemePreference(S, theme), "saveThemePreference", theme, Return(Undefined))

ApiLoadThemePreference ==
  CallOn(S, "loadThemePreference", Undefined, Return(loadThemePreference(S)))

InitPrefs ==
  /\ hasContainer = TRUE
  /\ origText = <<"x">>
  /\ fileExt = NoExt
  /\ storageMode \in {"ok", "throws", "undefined"}
  /\ storedView \in (IF storageMode = "ok" THEN StoredValues ELSE {NoItem})
  /\ storedTheme \in (IF storageMode = "ok" THEN StoredThemes ELSE {NoItem})
  /\ origCls = <<>>
  /\ largeHTML = FALSE
  /\ InitScript

NextPrefs ==
  \/ ApiSaveSessionPreference
  \/ ApiLoadSessionPreference
  \/ ApiClearSessionPreference
  \/ ApiSaveThemePreference
  \/ ApiLoadThemePreference

SpecPrefs == InitPrefs /\ [][NextPrefs]_vars

\* C23: loadSessionPreference returns the stored value only when it is
\* exactly 'raw' or 'rendered', and the fixed default 'rendered' when the
\* stored value is missing, invalid or unreadable, whatever was saved, loaded
\* or cleared before; loadThemePreference returns the stored theme only if
\* it names a known theme and 'white' otherwise.
C23_LoadValidates ==
  /\ apiCall.fn = "loadSessionPreference" =>
       apiCall.outcome.value =
         IF storageMode = "ok" /\ storedView \in {"raw", "rendered"}
         THEN storedView ELSE "rendered"
  /\ apiCall.fn = "loadThemePreference" =>
       apiCall.outcome.value =
         IF storageMode = "ok"
            /\ storedTheme \in {"white", "light-gray", "warm-white", "paper", "Paper"}
         THEN storedTheme ELSE "white"

\* C24: saveSessionPreference(v), v 'raw' or 'rendered', does not throw when
\* the session store is missing or its setItem throws, and the preference is
\* kept in memory: a loadSessionPreference that follows, with the store
\* still failing, returns v.
C24_SaveKeptInMemory ==
  [][(/\ apiCall.fn = "saveSessionPreference"
      /\ apiCall.arg \in ViewModes
      /\ storageMode # "ok"
      /\ ApiLoadSessionPreference)
       => /\ ~apiCall.outcome.threw
          /\ apiCall'.outcome = Return(apiCall.arg)]_vars


\* ------------------------------------------------------------------------
\* Page loads within one browser session
\* ------------------------------------------------------------------------
MaxLoads == 3

\* The tab loads the page again: the host page's markup is back, the content
\* script starts afresh and sessionStorage keeps its items.  wf.run counts the
\* page loads, and lastToggle keeps the session's most recent toggle, marked
\* as made on an earlier page.
PageLoad ==
  /\ wf.run < MaxLoads
  /\ markup' = OrigMarkup(origText)
  /\ cls' = origCls
  /\ originalContentBackup' = NoBackup
  /\ currentContentContainer' = FALSE
  /\ isContentReplaced' = FALSE
  /\ toggleButton' = NoButton
  /\ currentView' = "raw"
  /\ defaultView' = "rendered"
  /\ processedMarkdownHTML' = NoHTML
  /\ wf' = [WfStart EXCEPT !.run = wf.run + 1]
  /\ tasks' = <<>>
  /\ lastToggle' = IF lastToggle.origin = "none" THEN NoCall
                   ELSE [lastToggle EXCEPT !.origin = "earlier"]
  /\ firstAnalysis' = NotAnalyzed
  /\ lastAnalysis' = NotAnalyzed
  /\ loadingIndicator' = FALSE
  /\ loadingTimeout' = FALSE
  /\ themeClasses' = {}
  /\ indicatorElements' = {}
  /\ autoHideTimers' = {}
  /\ UNCHANGED <<envVars, apiCall, ops, storedView, storedTheme, errorLog, logged>>

\* One session of a tab whose sessionStorage works.
InitSession ==
  /\ hasContainer = TRUE
  /\ origText \in NonEmptyTexts
  /\ fileExt \in FileExts
  /\ storageMode = "ok"
  /\ storedView \in StoredValues
  /\ origCls \in ClassNames
  /\ largeHTML = FALSE
  /\ storedTheme = NoItem
  /\ InitScript

NextSession ==
  \/ Next
  \/ PageLoad

SpecSession == InitSession /\ [][NextSession]_vars

\* The step in which the pipeline of a page load completes, no DOM operation
\* of the step failing.
CompletesWithoutFault ==
  LET NoFaults == [backupThrows |-> FALSE, writeThrows |-> FALSE, noticeFails |-> FALSE,
                   addFails |-> FALSE]
  IN /\ wf'.pc = "done" /\ wf'.result = "complete"
     /\ \/ /\ wf.pc = "replace"
           /\ LET r == performContentReplacement(S, wf.styled, NoFaults)
              IN Commit(WorkflowSteps8to9(WorkflowStep6(r.s), NoFaults))
        \/ /\ wf.pc = "highlight"
           /\ originalContentBackup.present
           /\ Commit(WorkflowSteps8to9(S, NoFaults))

\* C25: with working storage, once the user's last successful toggle has set
\* the view to v, every later page load of the session on which the pipeline
\* renders the content, and on which the user has not toggled, ends with
\* view v displayed.
C25_PreferencePersists ==
  [][(/\ wf.run > 1
      /\ lastToggle.origin = "earlier" /\ lastToggle.ret
      /\ CompletesWithoutFault)
       => currentView' = (IF lastToggle.preView = "raw" THEN "rendered" ELSE "raw")]_vars


\* ------------------------------------------------------------------------
\* withLoadingIndicator and the timers of the loading indicator
\* ------------------------------------------------------------------------
\* withLoadingIndicator(operation, message, showDelay) up to its await: the
\* show timer is set and the operation is pending.  Calls take the slots of
\* ops in order.
ApiWithLoadingIndicator ==
  /\ \E i \in 1..MaxOps :
       /\ ops[i].state = "unused"
       /\ \A j \in 1..(i - 1) : ops[j].state # "unused"
       /\ ops' = [ops EXCEPT ![i] = [state |-> "pending", showTimeout |-> TRUE,
                                     indicatorShown |-> FALSE]]
  /\ UNCHANGED <<envVars, apiCall, uiVars, storedView, markup, cls, originalContentBackup,
                 currentContentContainer, isContentReplaced, toggleButton, currentView,
                 defaultView, processedMarkdownHTML, wf, tasks, lastToggle, firstAnalysis,
                 lastAnalysis>>

\* showDelay has elapsed and the callback of the show timer runs.
ShowTimeoutFires(i) ==
  /\ ops[i].showTimeout
  /\ Commit(showLoadingIndicator(S))
  /\ ops' = [ops EXCEPT ![i].showTimeout = FALSE, ![i].indicatorShown = TRUE]
  /\ UNCHANGED <<envVars, apiCall, wf, lastToggle, firstAnalysis, lastAnalysis>>

\* withLoadingIndicator leaving the show timer pending when the operation
\* settles
OperationSettlesTimerKept(i) ==
  /\ ops[i].state = "pending"
  /\ \E outcome \in {"resolved", "rejected"} :
       ops' = [ops EXCEPT ![i].state = outcome]
  /\ Commit(IF ops[i].indicatorShown THEN hideLoadingIndicator(S) ELSE S)
  /\ UNCHANGED <<envVars, apiCall, wf, lastToggle, firstAnalysis, lastAnalysis>>

\* The operation resolves or rejects and withLoadingIndicator resumes, before
\* any timer can run: clearTimeout(showTimeout), and hideLoadingIndicator if
\* the timer had fired.
OperationSettles(i) ==
  /\ ops[i].state = "pending"
  /\ \E outcome \in {"resolved", "rejected"} :
       ops' = [ops EXCEPT ![i].state = outcome, ![i].showTimeout = FALSE]
  /\ Commit(IF ops[i].indicatorShown THEN hideLoadingIndicator(S) ELSE S)
  /\ UNCHANGED <<envVars, apiCall, wf, lastToggle, firstAnalysis, lastAnalysis>>

\* The auto-hide timer set by showLoadingIndicator runs its callback.
AutoHideFires ==
  /\ \E timer \in autoHideTimers :
       Commit(hideLoadingIndicator([S EXCEPT !.timers = @ \ {timer}]))
  /\ UNCHANGED <<envVars, apiCall, ops, wf, lastToggle, firstAnalysis, lastAnalysis>>

\* A Markdown page whose rendered HTML is or is not long enough for the
\* toggle to show the indicator.
InitLoading ==
  /\ hasContainer = TRUE
  /\ origText = <<"#", " ", "x">>
  /\ fileExt \in FileExts
  /\ storageMode = "ok"
  /\ storedView = NoItem
  /\ origCls = <<>>
  /\ largeHTML \in BOOLEAN
  /\ storedTheme = NoItem
  /\ InitScript

NextLoading ==
  \/ Next
  \/ ApiWithLoadingIndicator
  \/ \E i \in 1..MaxOps : ShowTimeoutFires(i)
  \/ \E i \in 1..MaxOps : OperationSettles(i)
  \/ AutoHideFires

SpecLoading == InitLoading /\ [][NextLoading]_vars

\* C26: an operation given to withLoadingIndicator that settles before the
\* show timer has fired never gets the indicator: the timer is cancelled and
\* indicatorShown stays false; while the operation is pending and the timer
\* has not fired the timer stays set, and when it fires the indicator is
\* shown.
C26_IndicatorTrigger ==
  [][\A i \in 1..MaxOps :
       /\ ops[i].state \in {"resolved", "rejected"}
            => /\ ~ops[i].showTimeout
               /\ ops'[i].indicatorShown = ops[i].indicatorShown
       /\ (ops[i].state = "pending" /\ ~ops[i].indicatorShown) => ops[i].showTimeout
       /\ (ops[i].state = "pending" /\ ShowTimeoutFires(i))
            => loadingIndicator' /\ ops'[i].indicatorShown]_vars

C26_Witness ==
  \E i, j \in 1..MaxOps :
    /\ ops[i].state = "resolved" /\ ~ops[i].indicatorShown
    /\ ops[j].state = "pending" /\ ops[j].indicatorShown /\ loadingIndicator


\* The same, every timer that is set eventually running its callback unless
\* it is cleared first.
SpecLoadingFair == SpecLoading /\ WF_vars(AutoHideFires)

\* C27: a loading indicator in the page always has its auto-hide timer
\* pending; when the pipeline and every toggle have settled and no pending
\* withLoadingIndicator call has shown it, no indicator is in the page; and
\* every indicator that is shown is eventually removed.
C27_IndicatorRemoved ==
  /\ [](loadingIndicator => loadingTimeout)
  /\ []((/\ wf.pc \in {"start", "done"}
         /\ tasks = <<>>
         /\ \A i \in 1..MaxOps : ~(ops[i].state = "pending" /\ ops[i].indicatorShown))
          => ~loadingIndicator)
  /\ (loadingIndicator ~> ~loadingIndicator)

C27_Witness ==
  /\ largeHTML /\ lastToggle.ret /\ lastToggle.preView = "raw" /\ tasks = <<>>
  /\ \E i \in 1..MaxOps : ops[i].state = "pending" /\ ops[i].indicatorShown
  /\ ~loadingIndicator


\* C28: once the rendered HTML is cached, a toggle (a click, a direct
\* toggleView call, or the completion of a suspended switch) leaves
\* processedMarkdownHTML as it is, starts no pipeline stage and no
\* classification, and leaves in the container what was there, the cached
\* HTML or the snapshot.
C28_ToggleNeverReparses ==
  [][(/\ processedMarkdownHTML # NoHTML
      /\ (UserToggle \/ TaskStep \/ ApiToggleView))
       => /\ processedMarkdownHTML' = processedMarkdownHTML
          /\ wf' = wf
          /\ lastAnalysis' = lastAnalysis
          /\ markup' \in {markup, processedMarkdownHTML,
                          originalContentBackup'.innerHTML}]_vars

C28_Witness ==
  /\ wf.pc = "done"
  /\ lastToggle.ret /\ lastToggle.preView = "raw" /\ tasks = <<>>
  /\ processedMarkdownHTML.kind = "html"
  /\ markup = processedMarkdownHTML


\* ------------------------------------------------------------------------
\* setBackgroundTheme called directly
\* ------------------------------------------------------------------------
ThemeArguments ==
  {"white", "light-gray", "warm-white", "paper", "Paper", "light_gray", "invalid-theme",
   "", NullTheme, UndefinedTheme}

ApiSetBackgroundTheme ==
  \E theme \in ThemeArguments :
    LET r == setBackgroundTheme(S, theme)
    IN CallOn(r.s, "setBackgroundTheme", theme, Return(r.ret))

\* A Markdown page, with or without a container the script can find.
InitTheme ==
  /\ hasContainer \in BOOLEAN
  /\ origText = <<"#", " ", "x">>
  /\ fileExt \in FileExts
  /\ storageMode \in {"ok", "undefined"}
  /\ storedView = NoItem
  /\ origCls = <<>>
  /\ largeHTML = FALSE
  /\ storedTheme = NoItem
  /\ InitScript

NextTheme ==
  \/ Next
  \/ ApiSetBackgroundTheme

SpecTheme == InitTheme /\ [][NextTheme]_vars

C30_StageOrdering ==
  /\ wf.pc \in {"parse", "style", "replace", "highlight"}
       => /\ lastAnalysis.called /\ lastAnalysis.content = wf.content
          /\ handleNonMarkdownContent(wf.content, extractFileExtension).action
               = "process_as_markdown"
  /\ wf.pc \in {"start", "parse", "style"}
       => /\ markup = OrigMarkup(origText) /\ ~isContentReplaced
          /\ wf.replaced = "none"
  /\ (wf.pc \in {"replace", "highlight"} \/ wf.replaced # "none")
       => IsValidHTML(processedMarkdownHTML) /\ wf.styled = processedMarkdownHTML
  /\ toggleButton.exists => wf.pc = "done" /\ wf.replaced # "none"
  /\ toggleButton.attached => wf.replaced = "ok"


\* ------------------------------------------------------------------------
\* The content functions called directly
\* ------------------------------------------------------------------------
HTMLArguments ==
  {NonString("null"), NonString("123"), <<>>, <<" ">>, <<NL, " ">>, <<"<", "p", ">">>}

\* One direct call in a run of the content script, at any moment of the run.
CallOnce(s, fn, arg, outcome) ==
  /\ apiCall = NoApiCall
  /\ CallOn(s, fn, arg, outcome)

\* The outcome of a call that threw carries no value.
ApiReplaceContentWithHTML ==
  \E styledHTML \in HTMLArguments, f \in ToggleFaults :
    LET r == replaceContentWithHTMLOfValue(S, styledHTML, f)
    IN CallOnce(r.s, "replaceContentWithHTML", styledHTML,
                IF r.ok THEN Return(TRUE) ELSE [value |-> FALSE, threw |-> TRUE])

ApiPerformContentReplacement ==
  \E styledHTML \in HTMLArguments, f \in ToggleFaults :
    LET r == replaceContentWithHTMLOfValue(S, styledHTML, f)
    IN CallOnce(r.s, "performContentReplacement", styledHTML, Return(r.ok))

ApiToggleContent ==
  \E mode \in ViewModes, styledHTML \in HTMLArguments, f \in ToggleFaults :
    LET r == toggleContent(S, mode, styledHTML, f)
    IN CallOnce(r.s, "toggleContent", [mode |-> mode, styledHTML |-> styledHTML],
                Return(r.ok))

ApiSwitchToRawView ==
  \E f \in ToggleFaults :
    LET r == switchToRawView(S, f)
    IN CallOnce(r.s, "switchToRawView", <<>>, Return(r.ok))

\* A Markdown page, with or without a container; the functions are called
\* before, during and after the pipeline.
InitContent ==
  /\ hasContainer \in BOOLEAN
  /\ origText = <<"#", " ", "x">>
  /\ fileExt = "md"
  /\ storageMode = "ok"
  /\ storedView \in {NoItem, "raw"}
  /\ origCls \in (IF hasContainer THEN {<<>>, Marker} ELSE {<<>>})
  /\ largeHTML = FALSE
  /\ storedTheme = NoItem
  /\ InitScript

NextContent ==
  \/ Next
  \/ ApiReplaceContentWithHTML
  \/ ApiPerformContentReplacement
  \/ ApiToggleContent
  \/ ApiSwitchToRawView

SpecContent == InitContent /\ [][NextContent]_vars

\* C31: replaceContentWithHTML given a non-string, an empty or a
\* whitespace-only value throws, performContentReplacement and toggleContent
\* report the failure, and in each case no snapshot is made and the
\* container, its class, isContentReplaced and currentView stay as they were.
C31_InvalidHTMLRejected ==
  [][(/\ apiCall.fn = "none"
      /\ \/ /\ apiCall'.fn \in {"replaceContentWithHTML", "performContentReplacement"}
            /\ ~IsStyledHTMLArgument(apiCall'.arg)
         \/ /\ apiCall'.fn = "toggleContent"
            /\ apiCall'.arg.mode = "rendered"
            /\ ~IsStyledHTMLArgument(apiCall'.arg.styledHTML))
       => /\ apiCall'.fn = "replaceContentWithHTML" => apiCall'.outcome.threw
          /\ apiCall'.fn # "replaceContentWithHTML" => apiCall'.outcome = Return(FALSE)
          /\ UNCHANGED <<originalContentBackup, currentContentContainer, markup, cls,
                         isContentReplaced, currentView>>]_vars

C31_Witness ==
  /\ apiCall.fn = "replaceContentWithHTML" /\ apiCall.arg = <<NL, " ">>
  /\ apiCall.outcome.threw
  /\ wf.pc = "start"
  /\ ~originalContentBackup.present /\ markup = OrigMarkup(origText)


\* C32: switchToRawView, and toggleContent('raw'), called while there is no
\* snapshot or no recorded container, return false without throwing and
\* leave the container, currentView, isContentReplaced, the toggle button
\* and the stored view preference as they were.
C32_DeactivateWithoutSnapshot ==
  [][(/\ apiCall.fn = "none"
      /\ \/ apiCall'.fn = "switchToRawView"
         \/ apiCall'.fn = "toggleContent" /\ apiCall'.arg.mode = "raw"
      /\ ~originalContentBackup.present \/ ~currentContentContainer)
       => /\ apiCall'.outcome = Return(FALSE)
          /\ UNCHANGED <<markup, cls, currentView, isContentReplaced, toggleButton,
                         storedView, defaultView, originalContentBackup>>]_vars

C32_Witness ==
  /\ apiCall.fn = "switchToRawView" /\ apiCall.outcome = Return(FALSE)
  /\ ~originalContentBackup.present
  /\ wf.pc = "done" /\ currentView = "rendered" /\ storedView = "rendered"


\* C33: with working session storage, whenever a pipeline run that attached
\* the toggle control has settled and no toggle is in flight, the stored
\* view preference equals currentView.
C33_PreferenceTracksView ==
  (/\ storageMode = "ok"
   /\ wf.pc = "done" /\ wf.result = "complete"
   /\ toggleButton.attached
   /\ tasks = <<>>)
    => storedView = currentView


\* C34: when the most recent setBackgroundTheme call applied a non-default
\* theme and a toggle from the raw view back to the rendered view has
\* completed since, the rendered content carries the class of the stored
\* theme preference and getCurrentBackgroundTheme returns that theme.
C34_ToggleKeepsTheme ==
  (/\ apiCall.fn = "setBackgroundTheme"
   /\ apiCall.outcome.value = TRUE
   /\ apiCall.arg \in {"light-gray", "warm-white", "paper"}
   /\ storageMode = "ok" /\ storedTheme = apiCall.arg
   /\ lastToggle.ret /\ lastToggle.preView = "raw"
   /\ tasks = <<>> /\ wf.pc = "done"
   /\ currentView = "rendered" /\ isContentReplaced /\ markup.kind = "html")
    => /\ getCurrentBackgroundTheme(S) = storedTheme
       /\ themeClasses = {BACKGROUND_THEMES[ThemeKey(storedTheme)]}


ApiShowLoadingIndicator ==
  /\ \E timeout \in {0, 5000} : Commit(showLoadingIndicatorFor(S, timeout))
  /\ UNCHANGED <<envVars, apiCall, ops, wf, lastToggle, firstAnalysis, lastAnalysis>>

ApiHideLoadingIndicator ==
  /\ Commit(hideLoadingIndicator(S))
  /\ UNCHANGED <<envVars, apiCall, ops, wf, lastToggle, firstAnalysis, lastAnalysis>>

NextIndicator ==
  \/ NextLoading
  \/ ApiShowLoadingIndicator
  \/ ApiHideLoadingIndicator

SpecIndicator == InitLoading /\ [][NextIndicator]_vars

\* C36: at most one loading indicator element is in the page, the one that
\* loadingIndicator refers to; and the only auto-hide timer that can be
\* pending is the one of that indicator, so that no timer set for an earlier
\* indicator is left to remove a later one.
C36_SingleIndicator ==
  /\ Cardinality(indicatorElements) <= 1
  /\ indicatorElements = (IF loadingIndicator THEN {"current"} ELSE {})
  /\ autoHideTimers = (IF loadingTimeout THEN {"current"} ELSE {})
  /\ autoHideTimers # {} => loadingIndicator

C36_Witness ==
  /\ indicatorElements = {"current"} /\ autoHideTimers = {"current"}
  /\ \E i, j \in 1..MaxOps :
       /\ i # j
       /\ ops[i].state = "pending" /\ ops[i].indicatorShown
       /\ ops[j].state = "pending" /\ ops[j].indicatorShown


\* ------------------------------------------------------------------------
\* The error log
\* ------------------------------------------------------------------------
MaxLogged == 53

\* logError keeping the first 50 entries of the log
logErrorKeepsOldest(s) ==
  LET n == s.logCount + 1
      pushed == Append(s.errors, n)
  IN IF storageMode = "ok"
     THEN [s EXCEPT !.logCount = n,
                    !.errors = IF Len(pushed) > 50 THEN SubSeq(pushed, 1, 50) ELSE pushed]
     ELSE [s EXCEPT !.logCount = n]

\* logError: the entry, here the number of the call, is pushed onto the
\* parsed log, errorLog.splice(0, errorLog.length - 50) drops the oldest
\* entries beyond 50, and the log is stored again; with sessionStorage
\* missing nothing is stored, and when it throws the catch only warns.
logError(s) ==
  LET n == s.logCount + 1
      pushed == Append(s.errors, n)
  IN IF storageMode = "ok"
     THEN [s EXCEPT !.logCount = n,
                    !.errors = IF Len(pushed) > 50
                               THEN SubSeq(pushed, Len(pushed) - 50 + 1, Len(pushed))
                               ELSE pushed]
     ELSE [s EXCEPT !.logCount = n]

\* clearErrorLog: removeItem, when sessionStorage is there and does not throw.
clearErrorLog(s) == IF storageMode = "ok" THEN [s EXCEPT !.errors = <<>>] ELSE s

ApiLogError ==
  /\ logged < MaxLogged
  /\ CallOn(logError(S), "logError", logged + 1, Return(Undefined))

ApiClearErrorLog ==
  CallOn(clearErrorLog(S), "clearErrorLog", logged, Return(Undefined))

InitErrorLog ==
  /\ hasContainer = TRUE
  /\ origText = <<"x">>
  /\ fileExt = NoExt
  /\ storageMode \in {"ok", "throws", "undefined"}
  /\ storedView = NoItem
  /\ origCls = <<>>
  /\ largeHTML = FALSE
  /\ storedTheme = NoItem
  /\ InitScript

NextErrorLog ==
  \/ ApiLogError
  \/ ApiClearErrorLog

SpecErrorLog == InitErrorLog /\ [][NextErrorLog]_vars

\* C37: the stored error log never holds more than 50 entries; they are
\* consecutive logError calls in the order of logging, ending with the most
\* recent one, and each call adds its entry and drops only what exceeds 50;
\* with sessionStorage missing or throwing logError returns normally and
\* stores nothing.
C37_BoundedErrorLog ==
  /\ [](/\ Len(errorLog) <= 50
        /\ \A k \in 1..Len(errorLog) : errorLog[k] = logged - Len(errorLog) + k
        /\ storageMode # "ok" => errorLog = <<>>
        /\ apiCall.fn = "logError" => ~apiCall.outcome.threw)
  /\ [][(ApiLogError /\ storageMode = "ok")
          => Len(errorLog') = (IF Len(errorLog) < 50 THEN Len(errorLog) + 1 ELSE 50)]_vars

C37_Witness ==
  /\ storageMode = "ok"
  /\ logged = 52
  /\ Len(errorLog) = 50 /\ errorLog[1] = 3 /\ errorLog[50] = 52


\* C38: whenever processedMarkdownHTML is set, it is the rendering of the
\* page's original raw text, also after the workflow has run again while
\* the rendered view is displayed.
C38_CacheOfOriginalText ==
  processedMarkdownHTML # NoHTML => processedMarkdownHTML.text = origText

====
